---------------------------- MODULE Spec2Model ----------------------------
(***************************************************************************)
(* Constraint expansion stage of the CP-SAT presolver                      *)
(* (ortools/sat/cp_model_expand.cc).                                       *)
(*                                                                         *)
(* The presolve context is a record:                                       *)
(*   dom      domains, dom[v + 1] is the domain of variable v              *)
(*   enc      the (var, value) -> literal encoding cache, as triples       *)
(*   eqs      Boolean equalities stored by StoreBooleanEqualityRelation    *)
(*   cts      working_model->constraints                                   *)
(*   unsat    ModelIsUnsat()                                               *)
(*   expanded ModelIsExpanded()                                            *)
(*   prec     the reified precedence cache                                 *)
(*   crashed  a CHECK failed and the process was aborted                   *)
(* References follow the proto convention: ref >= 0 is variable ref,       *)
(* ref < 0 is the negation of variable -ref - 1.  Variable 0 is the        *)
(* constant of GetTrueLiteral().                                           *)
(*                                                                         *)
(* ctx0 is the context the stage was entered with, params the solver       *)
(* parameters, pc and idx the position of the stage in its loops, scan the *)
(* variable scanning caches of the second pass, loop the state of a        *)
(* subsolver loop: its subsolvers, its thread pool and its counters.       *)
(***************************************************************************)
EXTENDS Integers, Sequences, FiniteSets, TLC

VARIABLES ctx, ctx0, params, pc, idx, scan, loop

vars == <<ctx, ctx0, params, pc, idx, scan, loop>>

-----------------------------------------------------------------------------
(* Generic helpers.                                                        *)

Range(s) == {s[i] : i \in 1..Len(s)}

Min(S) == CHOOSE x \in S : \A y \in S : x <= y

Max(S) == CHOOSE x \in S : \A y \in S : x >= y

RECURSIVE SortedSeq(_)
SortedSeq(S) == IF S = {} THEN <<>> ELSE <<Min(S)>> \o SortedSeq(S \ {Min(S)})

RECURSIVE SumSeq(_)
SumSeq(s) == IF s = <<>> THEN 0 ELSE Head(s) + SumSeq(Tail(s))

RECURSIVE FoldSeq(_, _, _)
FoldSeq(Op(_, _), acc, s) ==
  IF s = <<>> THEN acc ELSE FoldSeq(Op, Op(acc, Head(s)), Tail(s))

\* for (x : S.Values()) acc = Op(acc, x), in increasing order.
FoldSet(Op(_, _), acc, S) == FoldSeq(Op, acc, SortedSeq(S))

SelectIdx(s, Test(_)) == SortedSeq({i \in 1..Len(s) : Test(i)})

-----------------------------------------------------------------------------
(* References and literals.                                                *)

NegatedRef(ref) == -ref - 1

PositiveRef(ref) == IF ref >= 0 THEN ref ELSE -ref - 1

RefIsPositive(ref) == ref >= 0

GetTrueLiteral == 0

GetFalseLiteral == NegatedRef(GetTrueLiteral)

-----------------------------------------------------------------------------
(* Constraints.                                                            *)

NoArg == [none |-> TRUE]

Ct(kind, enf, lits, vs, coeffs, rhs, arg) ==
  [kind |-> kind, enf |-> enf, lits |-> lits, vars |-> vs, coeffs |-> coeffs,
   rhs |-> rhs, arg |-> arg]

\* ConstraintProto::Clear(): the slot stays, its kind becomes CONSTRAINT_NOT_SET.
ClearedCt == Ct("not_set", <<>>, <<>>, <<>>, <<>>, {}, NoArg)

BoolCt(kind, enf, lits) == Ct(kind, enf, lits, <<>>, <<>>, {}, NoArg)

LinearCt(enf, vs, coeffs, rhs) == Ct("linear", enf, <<>>, vs, coeffs, rhs, NoArg)

ArgCt(kind, enf, arg) == Ct(kind, enf, <<>>, <<>>, <<>>, {}, arg)

-----------------------------------------------------------------------------
(* The presolve context.                                                   *)

NumVars(c) == Len(c.dom)

DomainOf(c, ref) ==
  IF ref >= 0 THEN c.dom[ref + 1] ELSE {-x : x \in c.dom[PositiveRef(ref) + 1]}

DomainContains(c, ref, v) == v \in DomainOf(c, ref)

IsFixed(c, ref) == Cardinality(DomainOf(c, ref)) = 1

MinOf(c, ref) == Min(DomainOf(c, ref))

MaxOf(c, ref) == Max(DomainOf(c, ref))

LiteralIsTrue(c, lit) ==
  IF lit >= 0 THEN c.dom[lit + 1] = {1} ELSE c.dom[PositiveRef(lit) + 1] = {0}

LiteralIsFalse(c, lit) == LiteralIsTrue(c, NegatedRef(lit))

AddConstraint(c, ct) == [c EXCEPT !.cts = Append(@, ct)]

SetConstraint(c, i, ct) == [c EXCEPT !.cts[i] = ct]

NotifyThatModelIsUnsat(c) == [c EXCEPT !.unsat = TRUE]

\* A CHECK that fails aborts the process.
CheckFailed(c) == [c EXCEPT !.crashed = TRUE]

\* The domain is stored even when it becomes empty; the model is then unsat
\* and the call returns false, which callers read back as c.unsat.
IntersectDomainWith(c, ref, D) ==
  LET var == PositiveRef(ref)
      Dv  == IF ref >= 0 THEN D ELSE {-x : x \in D}
      new == c.dom[var + 1] \cap Dv
  IN  [c EXCEPT !.dom[var + 1] = new, !.unsat = @ \/ new = {}]

SetLiteralToFalse(c, lit) ==
  IntersectDomainWith(c, PositiveRef(lit), IF lit >= 0 THEN {0} ELSE {1})

\* The new variable is NumVars(c) of the context before the call.
NewBoolVar(c) == [c EXCEPT !.dom = Append(@, {0, 1})]

NewIntVar(c, D) == [c EXCEPT !.dom = Append(@, D)]

AddImplication(c, a, b) == AddConstraint(c, BoolCt("bool_and", <<a>>, <<b>>))

AddImplyInDomain(c, b, x, D) ==
  AddConstraint(c, LinearCt(<<b>>, <<x>>, <<1>>, D))

StoreBooleanEqualityRelation(c, a, b) ==
  IF a = b THEN c
  ELSE IF a = NegatedRef(b) THEN NotifyThatModelIsUnsat(c)
  ELSE [c EXCEPT !.eqs = @ \cup {<<a, b>>}]

EncodingOf(c, var, value) ==
  {e \in c.enc : e[1] = var /\ e[2] = value}

HasVarValueEncoding(c, ref, value) ==
  EncodingOf(c, PositiveRef(ref), IF ref >= 0 THEN value ELSE -value) # {}

\* The literal HasVarValueEncoding hands back through its out parameter.
VarValueEncoding(c, ref, value) ==
  (CHOOSE e \in EncodingOf(c, PositiveRef(ref),
                           IF ref >= 0 THEN value ELSE -value) : TRUE)[3]

\* Returns [c |-> the context after the call, lit |-> the literal].
GetOrCreateVarValueEncoding(c, ref, value) ==
  LET var == PositiveRef(ref)
      val == IF ref >= 0 THEN value ELSE -value
  IN  IF val \notin c.dom[var + 1] THEN [c |-> c, lit |-> GetFalseLiteral]
      ELSE IF EncodingOf(c, var, val) # {}
        THEN [c |-> c, lit |-> VarValueEncoding(c, var, val)]
      ELSE IF c.dom[var + 1] = {val} THEN [c |-> c, lit |-> GetTrueLiteral]
      ELSE [c   |-> [NewBoolVar(c) EXCEPT
                       !.enc = @ \cup {<<var, val, NumVars(c)>>}],
            lit |-> NumVars(c)]

InsertVarValueEncoding(c, lit, ref, value) ==
  LET var == PositiveRef(ref)
      val == IF ref >= 0 THEN value ELSE -value
  IN  IF val \notin c.dom[var + 1] THEN SetLiteralToFalse(c, lit)
      ELSE IF EncodingOf(c, var, val) # {}
        THEN StoreBooleanEqualityRelation(c, lit, VarValueEncoding(c, var, val))
      ELSE [c EXCEPT !.enc = @ \cup {<<var, val, lit>>}]

-----------------------------------------------------------------------------
(* Meaning of a model: assignments and the constraints they satisfy.       *)
(* An assignment A is a sequence, A[v + 1] the value of variable v.        *)

Value(A, ref) == IF ref >= 0 THEN A[ref + 1] ELSE -A[PositiveRef(ref) + 1]

LitTrue(A, lit) ==
  IF lit >= 0 THEN A[lit + 1] = 1 ELSE A[PositiveRef(lit) + 1] = 0

NumTrue(A, lits) == Cardinality({i \in 1..Len(lits) : LitTrue(A, lits[i])})

LinearValue(A, vs, coeffs) ==
  SumSeq([i \in 1..Len(vs) |-> coeffs[i] * Value(A, vs[i])])

Enforced(A, ct) == \A i \in 1..Len(ct.enf) : LitTrue(A, ct.enf[i])

HoldsLow(A, ct) ==
  CASE ct.kind = "bool_or"     -> NumTrue(A, ct.lits) >= 1
    [] ct.kind = "bool_and"    -> NumTrue(A, ct.lits) = Len(ct.lits)
    [] ct.kind = "at_most_one" -> NumTrue(A, ct.lits) <= 1
    [] ct.kind = "exactly_one" -> NumTrue(A, ct.lits) = 1
    [] ct.kind = "linear"      -> LinearValue(A, ct.vars, ct.coeffs) \in ct.rhs
    [] OTHER                   -> TRUE

Holds(A, ct) == Enforced(A, ct) => HoldsLow(A, ct)

\* The variables a low-level constraint reads.
CtVars(ct) ==
  {PositiveRef(ct.enf[i]) : i \in 1..Len(ct.enf)}
    \cup {PositiveRef(ct.lits[i]) : i \in 1..Len(ct.lits)}
    \cup {PositiveRef(ct.vars[i]) : i \in 1..Len(ct.vars)}

EncHolds(A, e) == LitTrue(A, e[3]) <=> (A[e[1] + 1] = e[2])

EqHolds(A, q) == LitTrue(A, q[1]) <=> LitTrue(A, q[2])

\* What can be decided once variables 0..k-1 are assigned and k-1 is the last
\* of them the check reads.
ChecksAt(c, k) ==
  [cts |-> {i \in 1..Len(c.cts) : Max(CtVars(c.cts[i]) \cup {0}) = k - 1},
   enc |-> {e \in c.enc : Max({e[1], PositiveRef(e[3])}) = k - 1},
   eqs |-> {q \in c.eqs : Max({PositiveRef(q[1]), PositiveRef(q[2])}) = k - 1}]

\* ChecksAt for every k, computed once per context.
Checks(c) == [k \in 1..NumVars(c) |-> ChecksAt(c, k)]

PrefixOk(c, ch, A) ==
  LET k == Len(A)
  IN  /\ A[k] \in c.dom[k]
      /\ \A i \in ch[k].cts : Holds(A, c.cts[i])
      /\ \A e \in ch[k].enc : EncHolds(A, e)
      /\ \A q \in ch[k].eqs : EqHolds(A, q)

\* The assignments of every variable that extend A and satisfy the domains,
\* the encodings, the stored equalities and the constraints.
RECURSIVE Sols(_, _, _)
Sols(c, ch, A) ==
  IF Len(A) = NumVars(c) THEN {A}
  ELSE UNION {Sols(c, ch, Append(A, x)) :
                x \in {y \in c.dom[Len(A) + 1] : PrefixOk(c, ch, Append(A, y))}}

Solutions(c) == IF c.unsat THEN {} ELSE Sols(c, Checks(c), <<>>)

\* The values the solutions give to variables 1..m.
Projection(S, m) == {SubSeq(A, 2, m + 1) : A \in S}

-----------------------------------------------------------------------------
(* Element: vars[index] == target.  arg = [index, target, vars].           *)

\* A[V] == V means for all i, V == i => A_i == i
ExpandElementWithTargetEqualIndex(c, i) ==
  LET element   == c.cts[i].arg
      index_ref == element.index
      valid_indices ==
        {v \in DomainOf(c, index_ref) : DomainContains(c, element.vars[v + 1], v)}
      c1 == IF Cardinality(valid_indices) < Cardinality(DomainOf(c, index_ref))
              THEN IntersectDomainWith(c, index_ref, valid_indices)
              ELSE c
      body(acc, v) ==
        LET var == element.vars[v + 1]
            e   == GetOrCreateVarValueEncoding(acc, index_ref, v)
        IN  IF MinOf(acc, var) = v /\ MaxOf(acc, var) = v THEN acc
            ELSE AddImplyInDomain(e.c, e.lit, var, {v})
  IN  IF c1.unsat THEN c1
      ELSE SetConstraint(FoldSet(body, c1, DomainOf(c1, index_ref)), i, ClearedCt)

\* ConstantArraySupports with the usage test off by one: a bool_or is opened
\* the first time a value is met.
ConstantArraySupportsAtFirstUse(c, i) ==
  LET element    == c.cts[i].arg
      target_ref == element.target
      body(acc, v) ==
        LET value == MinOf(acc.c, element.vars[v + 1])
            n     == IF value \in DOMAIN acc.usage THEN acc.usage[value] + 1 ELSE 1
            usage == [x \in DOMAIN acc.usage \cup {value} |->
                        IF x = value THEN n ELSE acc.usage[x]]
            e     == GetOrCreateVarValueEncoding(acc.c, target_ref, value)
            c1    == AddConstraint(e.c, BoolCt("bool_or", <<>>, <<NegatedRef(e.lit)>>))
        IN  IF n = 1
              THEN [c |-> c1, usage |-> usage,
                    supports |-> [x \in DOMAIN acc.supports \cup {value} |->
                                    IF x = value THEN Len(c1.cts)
                                    ELSE acc.supports[x]]]
              ELSE [acc EXCEPT !.usage = usage]
  IN  FoldSet(body, [c |-> c, usage |-> <<>>, supports |-> <<>>],
              DomainOf(c, element.index))

\* The first loop of ExpandConstantArrayElement: one bool_or, starting with the
\* negated target literal, for each value met a second time.  supports maps
\* such a value to the slot of its bool_or.
ConstantArraySupports(c, i) ==
  LET element    == c.cts[i].arg
      target_ref == element.target
      body(acc, v) ==
        LET value == MinOf(acc.c, element.vars[v + 1])
            n     == IF value \in DOMAIN acc.usage THEN acc.usage[value] + 1 ELSE 1
            usage == [x \in DOMAIN acc.usage \cup {value} |->
                        IF x = value THEN n ELSE acc.usage[x]]
            e     == GetOrCreateVarValueEncoding(acc.c, target_ref, value)
            c1    == AddConstraint(e.c, BoolCt("bool_or", <<>>, <<NegatedRef(e.lit)>>))
        IN  IF n = 2
              THEN [c |-> c1, usage |-> usage,
                    supports |-> [x \in DOMAIN acc.supports \cup {value} |->
                                    IF x = value THEN Len(c1.cts)
                                    ELSE acc.supports[x]]]
              ELSE [acc EXCEPT !.usage = usage]
  IN  FoldSet(body, [c |-> c, usage |-> <<>>, supports |-> <<>>],
              DomainOf(c, element.index))

\* Special case if the array of the element is filled with constant values.
ExpandConstantArrayElement(c, i) ==
  LET element    == c.cts[i].arg
      index_ref  == element.index
      target_ref == element.target
      index_domain == DomainOf(c, index_ref)
      s          == ConstantArraySupports(c, i)
      supports   == s.supports
      c1         == AddConstraint(s.c, BoolCt("exactly_one", <<>>, <<>>))
      exactly_one == Len(c1.cts)
      body(acc, v) ==
        LET e     == GetOrCreateVarValueEncoding(acc, index_ref, v)
            index_literal == e.lit
            c2    == [e.c EXCEPT !.cts[exactly_one].lits = Append(@, index_literal)]
            value == MinOf(c2, element.vars[v + 1])
            t     == GetOrCreateVarValueEncoding(c2, target_ref, value)
        IN  IF value \in DOMAIN supports
              THEN [AddImplication(t.c, index_literal, t.lit) EXCEPT
                      !.cts[supports[value]].lits = Append(@, index_literal)]
              ELSE InsertVarValueEncoding(c2, index_literal, target_ref, value)
  IN  SetConstraint(FoldSet(body, c1, index_domain), i, ClearedCt)

\* General element when the array contains non fixed variables.
ExpandVariableElement(c, i) ==
  LET element    == c.cts[i].arg
      index_ref  == element.index
      target_ref == element.target
      index_domain == DomainOf(c, index_ref)
      c1         == AddConstraint(c, BoolCt("exactly_one", <<>>, <<>>))
      exactly_one == Len(c1.cts)
      body(acc, v) ==
        LET var == element.vars[v + 1]
            var_domain == DomainOf(acc, var)
            e   == GetOrCreateVarValueEncoding(acc, index_ref, v)
            c2  == [e.c EXCEPT !.cts[exactly_one].lits = Append(@, e.lit)]
        IN  IF Cardinality(var_domain) = 1
              THEN AddImplyInDomain(c2, e.lit, target_ref, var_domain)
              ELSE AddConstraint(c2, LinearCt(<<e.lit>>, <<var, target_ref>>,
                                              <<1, -1>>, {0}))
  IN  SetConstraint(FoldSet(body, c1, index_domain), i, ClearedCt)

ExpandElement(c, i) ==
  LET element    == c.cts[i].arg
      index_ref  == element.index
      target_ref == element.target
      size       == Len(element.vars)
      c1 == IntersectDomainWith(c, index_ref, 0..(size - 1))
      index_domain  == DomainOf(c1, index_ref)
      target_domain == DomainOf(c1, target_ref)
      valid_indices ==
        {v \in index_domain :
           DomainOf(c1, element.vars[v + 1]) \cap target_domain # {}}
      reached_domain ==
        UNION {DomainOf(c1, element.vars[v + 1]) : v \in valid_indices}
      all_constants ==
        \A v \in valid_indices :
          Min(DomainOf(c1, element.vars[v + 1])) = Max(DomainOf(c1, element.vars[v + 1]))
      c2 == IF Cardinality(valid_indices) < Cardinality(index_domain)
              THEN IntersectDomainWith(c1, index_ref, valid_indices)
              ELSE c1
      c3 == IntersectDomainWith(c2, target_ref, reached_domain)
  IN  IF c1.unsat THEN c1
      ELSE IF index_ref = target_ref THEN ExpandElementWithTargetEqualIndex(c1, i)
      ELSE IF c2.unsat THEN c2
      ELSE IF c3.unsat THEN c3
      ELSE IF all_constants THEN ExpandConstantArrayElement(c3, i)
      ELSE ExpandVariableElement(c3, i)


-----------------------------------------------------------------------------
(* Size-two linear a.x + b.y != cte.                                       *)

Abs(x) == IF x >= 0 THEN x ELSE -x

RECURSIVE Gcd(_, _)
Gcd(a, b) == IF b = 0 THEN a ELSE Gcd(b, a % b)

\* Domain::kDomainComplexityLimit.
kDomainComplexityLimit == 100

\* The window of integers a right-hand side is written over.
MaxAbs == 40

Universe == (-MaxAbs)..MaxAbs

NumIntervals(D) == Cardinality({x \in D : x - 1 \notin D})

Hull(D) == IF D = {} THEN {} ELSE Min(D)..Max(D)

\* Domain::MultiplicationBy: exact unless the domain is too large.
MultiplicationBy(D, coeff) ==
  IF D = {} THEN {}
  ELSE IF coeff = 0 THEN {0}
  ELSE IF Abs(coeff) > 1 /\ Cardinality(D) > kDomainComplexityLimit
    THEN Hull({coeff * Min(D), coeff * Max(D)})
  ELSE {coeff * x : x \in D}

RelaxIfTooComplex(D) ==
  IF NumIntervals(D) > kDomainComplexityLimit THEN Hull(D) ELSE D

AdditionWith(D, E) == {x + y : x \in D, y \in E}

\* SolveDiophantineEquationOfSizeTwo: a, b and cte are divided by gcd(a, b);
\* (x0, y0) is a solution of a.x + b.y = cte when there is one.
SolveDiophantineEquationOfSizeTwo(a, b, cte) ==
  LET g  == Gcd(Abs(a), Abs(b))
      ra == IF a >= 0 THEN Abs(a) \div g ELSE -(Abs(a) \div g)
      rb == IF b >= 0 THEN Abs(b) \div g ELSE -(Abs(b) \div g)
      rc == IF cte >= 0 THEN Abs(cte) \div g ELSE -(Abs(cte) \div g)
      x0 == CHOOSE x \in 0..(Abs(rb) - 1) :
              \E y \in (-(Abs(rc) + Abs(ra) * Abs(rb)))..(Abs(rc) + Abs(ra) * Abs(rb)) :
                ra * x + rb * y = rc
      y0 == CHOOSE y \in (-(Abs(rc) + Abs(ra) * Abs(rb)))..(Abs(rc) + Abs(ra) * Abs(rb)) :
              ra * x0 + rb * y = rc
  IN  IF Abs(cte) % g # 0 THEN [ok |-> FALSE]
      ELSE [ok |-> TRUE, a |-> ra, b |-> rb, cte |-> rc, x0 |-> x0, y0 |-> y0]

\* The reduced domain with y0 + a.z in place of y0 - a.z.
Lin2ReducedDomainSignSlip(D1, D2, a, b, x0, y0) ==
  LET m == Max({Abs(v - x0) : v \in D1} \cup {Abs(v - y0) : v \in D2} \cup {0})
  IN  {z \in (-m)..m : x0 + b * z \in D1} \cap {z \in (-m)..m : y0 + a * z \in D2}

\* The values z with x0 + b.z in D1 and y0 - a.z in D2, as computed with
\* AdditionWith, InverseMultiplicationBy and IntersectionWith.
Lin2ReducedDomain(D1, D2, a, b, x0, y0) ==
  LET m == Max({Abs(v - x0) : v \in D1} \cup {Abs(v - y0) : v \in D2} \cup {0})
  IN  {z \in (-m)..m : x0 + b * z \in D1} \cap {z \in (-m)..m : y0 - a * z \in D2}

\* Lin2AllEncoded that looks at the values of the first variable only.
Lin2AllEncodedFirstOnly(c, var1, var2, d, reduced_domain) ==
  \A z \in reduced_domain :
    /\ HasVarValueEncoding(c, var1, d.x0 + d.b * z)
    /\ Cardinality(DomainOf(c, var1)) # 2

\* Check if all the needed values are encoded, for variables of more than
\* two values.
Lin2AllEncoded(c, var1, var2, d, reduced_domain) ==
  \A z \in reduced_domain :
    /\ HasVarValueEncoding(c, var1, d.x0 + d.b * z)
    /\ Cardinality(DomainOf(c, var1)) # 2
    /\ HasVarValueEncoding(c, var2, d.y0 - d.a * z)
    /\ Cardinality(DomainOf(c, var2)) # 2

\* Replaces a constraint literal => ax + by != cte by a set of clauses.
ExpandSomeLinearOfSizeTwo(c, i) ==
  LET ct     == c.cts[i]
      var1   == ct.vars[1]
      var2   == ct.vars[2]
      coeff1 == ct.coeffs[1]
      coeff2 == ct.coeffs[2]
      reachable_rhs_superset ==
        AdditionWith(RelaxIfTooComplex(MultiplicationBy(DomainOf(c, var1), coeff1)),
                     RelaxIfTooComplex(MultiplicationBy(DomainOf(c, var2), coeff2)))
      infeasible_reachable_values == reachable_rhs_superset \ ct.rhs
      d      == SolveDiophantineEquationOfSizeTwo(
                  coeff1, coeff2, CHOOSE v \in infeasible_reachable_values : TRUE)
      reduced_domain ==
        Lin2ReducedDomain(DomainOf(c, var1), DomainOf(c, var2), d.a, d.b, d.x0, d.y0)
      clause(acc, z) ==
        LET value1 == d.x0 + d.b * z
            value2 == d.y0 - d.a * z
            e1 == GetOrCreateVarValueEncoding(acc, var1, value1)
            e2 == GetOrCreateVarValueEncoding(e1.c, var2, value2)
        IN  AddConstraint(e2.c,
              BoolCt("bool_or", <<>>,
                     <<NegatedRef(e1.lit), NegatedRef(e2.lit)>>
                       \o [k \in 1..Len(ct.enf) |-> NegatedRef(ct.enf[k])]))
  IN  IF Len(ct.vars) # 2 THEN c
      ELSE IF IsFixed(c, var1) \/ IsFixed(c, var2) THEN c
      ELSE IF Cardinality(infeasible_reachable_values) # 1 THEN c
      ELSE IF ~d.ok THEN SetConstraint(c, i, ClearedCt)
      ELSE IF Cardinality(reduced_domain) > 16 THEN c
      ELSE IF ~Lin2AllEncoded(c, var1, var2, d, reduced_domain) THEN c
      ELSE SetConstraint(FoldSet(clause, c, reduced_domain), i, ClearedCt)

-----------------------------------------------------------------------------
(* Inverse: f_inverse[f_direct[i]] == i.  arg = [f_direct, f_inverse].     *)

\* IntersectDomainWith(ref, D) for each ref in turn, stopping at the first
\* empty domain.
InverseClamp(c, refs, D) ==
  LET body(acc, ref) == IF acc.unsat THEN acc ELSE IntersectDomainWith(acc, ref, D)
  IN  FoldSeq(body, c, refs)

\* A variable at f_direct[i] and f_inverse[j] with i # j takes neither value.
InverseDuplicates(c, f_direct, f_inverse) ==
  LET n == Len(f_direct)
      body(acc, ij) ==
        LET i == ij \div n
            j == ij % n
        IN  IF acc.unsat THEN acc
            ELSE IF PositiveRef(f_direct[i + 1]) # PositiveRef(f_inverse[j + 1]) THEN acc
            ELSE IF i = j THEN acc
            ELSE IntersectDomainWith(acc, f_direct[i + 1],
                                     DomainOf(acc, f_direct[i + 1]) \ {i, j})
  IN  IF Cardinality({PositiveRef(f_direct[k]) : k \in 1..n}
                       \cup {PositiveRef(f_inverse[k]) : k \in 1..n}) # 2 * n
        THEN FoldSet(body, c, 0..(n * n - 1))
        ELSE c

\* Propagate from the inverse vector to the direct vector.
filter_inverse_domain(c, direct, inverse) ==
  LET n == Len(direct)
      body(acc, i) ==
        LET domain == DomainOf(acc, direct[i + 1])
            possible_values == {j \in domain : i \in DomainOf(acc, inverse[j + 1])}
        IN  IF acc.unsat THEN acc
            ELSE IF possible_values # domain
              THEN IntersectDomainWith(acc, direct[i + 1], possible_values)
            ELSE acc
  IN  FoldSet(body, c, 0..(n - 1))

\* InverseShareLiterals with the literal of f_direct[i] == j given to
\* f_inverse[j] == j.
InverseShareLiteralsWrongValue(c, f_direct, f_inverse) ==
  LET n == Len(f_direct)
      body(acc0, i) ==
        LET f_i == f_direct[i + 1]
            inner(acc, j) ==
              LET r_j == f_inverse[j + 1]
                  e   == GetOrCreateVarValueEncoding(acc, f_i, j)
              IN  IF HasVarValueEncoding(acc, r_j, i)
                    THEN InsertVarValueEncoding(acc, VarValueEncoding(acc, r_j, i), f_i, j)
                    ELSE InsertVarValueEncoding(e.c, e.lit, r_j, j)
        IN  FoldSet(inner, acc0, DomainOf(acc0, f_i))
  IN  FoldSet(body, c, 0..(n - 1))

\* Associates a literal to var == value and shares it between the direct and
\* the inverse variables.
InverseShareLiterals(c, f_direct, f_inverse) ==
  LET n == Len(f_direct)
      body(acc0, i) ==
        LET f_i == f_direct[i + 1]
            inner(acc, j) ==
              LET r_j == f_inverse[j + 1]
                  e   == GetOrCreateVarValueEncoding(acc, f_i, j)
              IN  IF HasVarValueEncoding(acc, r_j, i)
                    THEN InsertVarValueEncoding(acc, VarValueEncoding(acc, r_j, i), f_i, j)
                    ELSE InsertVarValueEncoding(e.c, e.lit, r_j, i)
        IN  FoldSet(inner, acc0, DomainOf(acc0, f_i))
  IN  FoldSet(body, c, 0..(n - 1))

ExpandInverse(c, i) ==
  LET f_direct  == c.cts[i].arg.f_direct
      f_inverse == c.cts[i].arg.f_inverse
      n  == Len(f_direct)
      c1 == InverseClamp(c, f_direct, 0..(n - 1))
      c2 == InverseClamp(c1, f_inverse, 0..(n - 1))
      c3 == InverseDuplicates(c2, f_direct, f_inverse)
      c4 == filter_inverse_domain(c3, f_direct, f_inverse)
      c5 == filter_inverse_domain(c4, f_inverse, f_direct)
  IN  IF c1.unsat THEN c1
      ELSE IF c2.unsat THEN c2
      ELSE IF c3.unsat THEN c3
      ELSE IF c4.unsat THEN c4
      ELSE IF c5.unsat THEN c5
      ELSE SetConstraint(InverseShareLiterals(c5, f_direct, f_inverse), i, ClearedCt)

-----------------------------------------------------------------------------
(* Affine expressions coeff * var + offset, and constants.                 *)

Expr(var, coeff, offset) == [vars |-> <<var>>, coeffs |-> <<coeff>>, offset |-> offset]

ConstExpr(value) == [vars |-> <<>>, coeffs |-> <<>>, offset |-> value]

ExprIsFixed(c, e) == e.vars = <<>> \/ IsFixed(c, e.vars[1])

DomainSuperSetOf(c, e) ==
  IF e.vars = <<>> THEN {e.offset}
  ELSE {e.coeffs[1] * x + e.offset : x \in DomainOf(c, e.vars[1])}

ExprDomainContains(c, e, v) == v \in DomainSuperSetOf(c, e)

\* IntersectDomainWith(expr, complement of {v}).
ExprRemoveValue(c, e, v) ==
  IF e.vars = <<>> THEN (IF e.offset = v THEN NotifyThatModelIsUnsat(c) ELSE c)
  ELSE IntersectDomainWith(c, e.vars[1],
         {x \in DomainOf(c, e.vars[1]) : e.coeffs[1] * x + e.offset # v})

GetOrCreateAffineValueEncoding(c, e, v) ==
  IF e.vars = <<>>
    THEN [c |-> c, lit |-> IF e.offset = v THEN GetTrueLiteral ELSE GetFalseLiteral]
  ELSE IF \A x \in DomainOf(c, e.vars[1]) : e.coeffs[1] * x + e.offset # v
    THEN [c |-> c, lit |-> GetFalseLiteral]
  ELSE GetOrCreateVarValueEncoding(c, e.vars[1],
         CHOOSE x \in DomainOf(c, e.vars[1]) : e.coeffs[1] * x + e.offset = v)

IsFullyEncoded(c, e) ==
  \/ ExprIsFixed(c, e)
  \/ Cardinality(DomainOf(c, e.vars[1])) <= 2
  \/ \A x \in DomainOf(c, e.vars[1]) : EncodingOf(c, e.vars[1], x) # {}

\* The variables of a constraint, the ones of its argument included.
UsedVars(ct) ==
  CtVars(ct) \cup
    (CASE ct.kind = "all_diff" ->
            UNION {Range(ct.arg.exprs[k].vars) : k \in 1..Len(ct.arg.exprs)}
       [] ct.kind = "element" ->
            {ct.arg.index, ct.arg.target} \cup Range(ct.arg.vars)
       [] ct.kind = "inverse" ->
            {PositiveRef(r) : r \in Range(ct.arg.f_direct) \cup Range(ct.arg.f_inverse)}
       [] ct.kind \in {"lin_max", "table", "automaton", "interval"} ->
            {PositiveRef(r) : r \in Range(ct.arg.vars)}
       [] ct.kind \in {"int_mod", "int_div", "int_prod"} ->
            UNION {Range(ct.arg.exprs[k].vars) : k \in 1..Len(ct.arg.exprs)}
              \cup Range(ct.arg.target.vars)
       [] OTHER -> {})

VarToConstraints(c, var) == {k \in 1..Len(c.cts) : var \in UsedVars(c.cts[k])}

-----------------------------------------------------------------------------
(* All different.  arg = [exprs].                                          *)

AllDiffShouldBeExpanded(c, union_of_domains, i) ==
  LET exprs == c.cts[i].arg.exprs
      num_exprs == Len(exprs)
      num_fully_encoded ==
        Cardinality({k \in 1..num_exprs : IsFullyEncoded(c, exprs[k])})
  IN  \/ Cardinality(union_of_domains) <= 2 * num_exprs
      \/ Cardinality(union_of_domains) <= 32
      \/ num_fully_encoded = num_exprs /\ Cardinality(union_of_domains) < 256

IsVarEqOrNeqValue(c, lin) ==
  /\ Len(lin.vars) = 1
  /\ \/ Cardinality(lin.rhs) = 1
     \/ Cardinality({x \in DomainOf(c, lin.vars[1]) :
                       lin.coeffs[1] * x \notin lin.rhs}) = 1

\* What one constraint of the model says about the use of var.
ScanDomainIsUsed(c, other_ct, var) ==
  CASE other_ct.kind = "linear" ->
         IsVarEqOrNeqValue(c, other_ct) /\ var = other_ct.vars[1]
    [] other_ct.kind = "element" -> other_ct.arg.index = var
    [] other_ct.kind \in {"inverse", "table", "automaton"} -> TRUE
    [] OTHER -> FALSE

ScanBoundsAreUsed(c, other_ct, var) ==
  CASE other_ct.kind = "linear" ->
         /\ ~(IsVarEqOrNeqValue(c, other_ct) /\ var = other_ct.vars[1])
         /\ Len(other_ct.vars) > 2
         /\ Cardinality(other_ct.rhs) = 1
    [] other_ct.kind \in {"lin_max", "interval"} -> TRUE
    [] OTHER -> FALSE

\* The scan of the constraints of var: is its domain used, are its bounds.
ScanFresh(c, var) ==
  [domain_is_used |->
     \E j \in VarToConstraints(c, var) : ScanDomainIsUsed(c, c.cts[j], var),
   bounds_are_used |->
     \E j \in VarToConstraints(c, var) : ScanBoundsAreUsed(c, c.cts[j], var)]

\* The flags of a processed variable as the loop reads them from the caches:
\* the domain flag from bounds_of_var_are_used, the bounds flag from
\* domain_of_var_is_used.
ScanCached(sc, var) ==
  [domain_is_used |-> var \in sc.bounds_of_var_are_used,
   bounds_are_used |-> var \in sc.domain_of_var_is_used]

\* Returns [scan, expand, keep].  expand and keep are the flags declared before
\* the loop; the loop declares its own flags of the same names, and reads the
\* bounds cache for the domain flag and the domain cache for the bounds flag.
ScanModelAndDecideAllDiffExpansion(c, i, sc) ==
  LET exprs == c.cts[i].arg.exprs
      body(acc, k) ==
        LET var == exprs[k].vars[1]
            domain_is_used == ScanFresh(c, var).domain_is_used
            bounds_are_used == ScanFresh(c, var).bounds_are_used
            cached == var \in acc.scan.processed_variables
            at_least_one_var_domain_is_used ==
              IF cached THEN ScanCached(acc.scan, var).domain_is_used ELSE domain_is_used
            at_least_one_var_bound_is_used ==
              IF cached THEN ScanCached(acc.scan, var).bounds_are_used ELSE bounds_are_used
            scanned ==
              [domain_of_var_is_used |->
                 acc.scan.domain_of_var_is_used
                   \cup (IF domain_is_used THEN {var} ELSE {}),
               bounds_of_var_are_used |->
                 acc.scan.bounds_of_var_are_used
                   \cup (IF bounds_are_used THEN {var} ELSE {}),
               processed_variables |-> acc.scan.processed_variables \cup {var}]
        IN  IF acc.stop THEN acc
            ELSE IF exprs[k].vars = <<>> THEN acc
            ELSE IF IsFixed(c, var) THEN acc
            ELSE [acc EXCEPT
                    !.scan = IF cached THEN @ ELSE scanned,
                    !.stop = at_least_one_var_domain_is_used
                               /\ at_least_one_var_bound_is_used]
      final == FoldSet(body, [scan |-> sc, stop |-> FALSE, expand |-> FALSE,
                              keep |-> FALSE], 1..Len(exprs))
  IN  [scan |-> final.scan, expand |-> final.expand, keep |-> final.keep]

\* AllDiffValue with the two kinds of constraint exchanged.
AllDiffValueSwapped(c, exprs, is_a_permutation, v) ==
  LET possible_exprs == SelectIdx(exprs, LAMBDA k : ExprDomainContains(c, exprs[k], v))
      fixed_expression_count ==
        Cardinality({k \in Range(possible_exprs) : ExprIsFixed(c, exprs[k])})
      remove(acc, k) ==
        IF acc.unsat THEN acc
        ELSE IF ExprIsFixed(acc, exprs[k]) THEN acc
        ELSE ExprRemoveValue(acc, exprs[k], v)
      c1 == IF fixed_expression_count = 1 THEN FoldSeq(remove, c, possible_exprs) ELSE c
      literal(acc, k) ==
        LET e == GetOrCreateAffineValueEncoding(acc.c, exprs[k], v)
        IN  IF ~ExprDomainContains(acc.c, exprs[k], v) THEN acc
            ELSE [c |-> e.c, lits |-> Append(acc.lits, e.lit)]
      c2 == FoldSeq(literal, [c |-> c1, lits |-> <<>>], possible_exprs)
  IN  IF fixed_expression_count > 1 THEN NotifyThatModelIsUnsat(c)
      ELSE IF c1.unsat THEN c1
      ELSE AddConstraint(c2.c,
             BoolCt(IF is_a_permutation THEN "at_most_one" ELSE "exactly_one",
                    <<>>, c2.lits))

\* One value v of the union of the domains: the expressions that can take it,
\* the propagation of a fixed one, and the at most one / exactly one over the
\* encoding literals.
AllDiffValue(c, exprs, is_a_permutation, v) ==
  LET possible_exprs == SelectIdx(exprs, LAMBDA k : ExprDomainContains(c, exprs[k], v))
      fixed_expression_count ==
        Cardinality({k \in Range(possible_exprs) : ExprIsFixed(c, exprs[k])})
      remove(acc, k) ==
        IF acc.unsat THEN acc
        ELSE IF ExprIsFixed(acc, exprs[k]) THEN acc
        ELSE ExprRemoveValue(acc, exprs[k], v)
      c1 == IF fixed_expression_count = 1 THEN FoldSeq(remove, c, possible_exprs) ELSE c
      literal(acc, k) ==
        LET e == GetOrCreateAffineValueEncoding(acc.c, exprs[k], v)
        IN  IF ~ExprDomainContains(acc.c, exprs[k], v) THEN acc
            ELSE [c |-> e.c, lits |-> Append(acc.lits, e.lit)]
      c2 == FoldSeq(literal, [c |-> c1, lits |-> <<>>], possible_exprs)
  IN  IF fixed_expression_count > 1 THEN NotifyThatModelIsUnsat(c)
      ELSE IF c1.unsat THEN c1
      ELSE AddConstraint(c2.c,
             BoolCt(IF is_a_permutation THEN "exactly_one" ELSE "at_most_one",
                    <<>>, c2.lits))

\* Returns [c |-> the context, scan |-> the caches] after the call.
MaybeExpandAllDiff(c, i, p, sc) ==
  LET exprs == c.cts[i].arg.exprs
      num_exprs == Len(exprs)
      s == ScanModelAndDecideAllDiffExpansion(c, i, sc)
      keep_after_expansion == s.keep
      expand_all_diff_from_usage == s.expand
      union_of_domains == UNION {DomainSuperSetOf(c, exprs[k]) : k \in 1..num_exprs}
      expand_all_diff_from_size == AllDiffShouldBeExpanded(c, union_of_domains, i)
      should_expand ==
        \/ p.expand_alldiff_constraints
        \/ /\ expand_all_diff_from_size
           /\ (expand_all_diff_from_usage \/ ~keep_after_expansion)
      is_a_permutation == num_exprs = Cardinality(union_of_domains)
      body(acc, v) ==
        IF acc.unsat THEN acc ELSE AllDiffValue(acc, exprs, is_a_permutation, v)
      c1 == FoldSet(body, c, union_of_domains)
  IN  IF num_exprs <= 1 THEN [c |-> c, scan |-> sc]
      ELSE IF ~should_expand THEN [c |-> c, scan |-> s.scan]
      ELSE IF c1.unsat THEN [c |-> c1, scan |-> s.scan]
      ELSE IF ~keep_after_expansion
        THEN [c |-> SetConstraint(c1, i, ClearedCt), scan |-> s.scan]
      ELSE [c |-> c1, scan |-> s.scan]

-----------------------------------------------------------------------------
(* Reservoir.  arg = [time_exprs, level_changes, active_literals,          *)
(* min_level, max_level].                                                  *)

FixedValue(c, e) == CHOOSE v \in DomainSuperSetOf(c, e) : TRUE

\* Saturating arithmetic; the levels of the model stay far from the limits.
CapAdd(x, y) == x + y

CapSub(x, y) == x - y

\* The key of the reified precedence cache: a fixed expression counts as the
\* constant of its value.
GetReifiedPrecedenceKey(c, time_i, time_j, active_i, active_j) ==
  <<IF ExprIsFixed(c, time_i) THEN -1 ELSE time_i.vars[1],
    IF ExprIsFixed(c, time_i) THEN 0 ELSE time_i.coeffs[1],
    IF ExprIsFixed(c, time_j) THEN -1 ELSE time_j.vars[1],
    IF ExprIsFixed(c, time_j) THEN 0 ELSE time_j.coeffs[1],
    (IF ExprIsFixed(c, time_i) THEN FixedValue(c, time_i) ELSE time_i.offset)
      - (IF ExprIsFixed(c, time_j) THEN FixedValue(c, time_j) ELSE time_j.offset),
    active_i, active_j>>

PrecedenceCached(c, key) == {e \in c.prec : e[1] = key}

\* Returns [c, lit] with lit <=> (time_i <= time_j) && active_i && active_j:
\* the cached literal of the key, or a new Boolean with its defining
\* constraints.
GetOrCreateReifiedPrecedenceLiteral(c, time_i, time_j, active_i, active_j) ==
  LET key    == GetReifiedPrecedenceKey(c, time_i, time_j, active_i, active_j)
      rev    == GetReifiedPrecedenceKey(c, time_j, time_i, active_j, active_i)
      result == NumVars(c)
      vs     == (IF ExprIsFixed(c, time_i) THEN <<>> ELSE <<time_i.vars[1]>>)
                  \o (IF ExprIsFixed(c, time_j) THEN <<>> ELSE <<time_j.vars[1]>>)
      coeffs == (IF ExprIsFixed(c, time_i) THEN <<>> ELSE <<-time_i.coeffs[1]>>)
                  \o (IF ExprIsFixed(c, time_j) THEN <<>> ELSE <<time_j.coeffs[1]>>)
      offset == key[5]
      c1 == [NewBoolVar(c) EXCEPT !.prec = @ \cup {<<key, result>>}]
      c2 == AddConstraint(c1, LinearCt(<<result>>, vs, coeffs,
                                       {v \in Universe : v >= offset}))
      c3 == IF LiteralIsTrue(c2, active_i) THEN c2 ELSE AddImplication(c2, result, active_i)
      c4 == IF LiteralIsTrue(c3, active_j) THEN c3 ELSE AddImplication(c3, result, active_j)
      c5 == AddConstraint(c4, LinearCt(<<NegatedRef(result), active_i, active_j>>,
                                       vs, coeffs, {v \in Universe : v <= offset - 1}))
      c6 == IF PrecedenceCached(c, rev) # {}
              THEN AddConstraint(c5,
                     BoolCt("bool_or", <<>>,
                            <<result, (CHOOSE e \in PrecedenceCached(c, rev) : TRUE)[2],
                              NegatedRef(active_i), NegatedRef(active_j)>>))
              ELSE c5
  IN  IF PrecedenceCached(c, key) # {}
        THEN [c |-> c, lit |-> (CHOOSE e \in PrecedenceCached(c, key) : TRUE)[2]]
        ELSE [c |-> c6, lit |-> result]

ClearPrecedenceCache(c) == [c EXCEPT !.prec = {}]

is_active_literal(reservoir, index) ==
  IF Len(reservoir.active_literals) = 0 THEN GetTrueLiteral
  ELSE reservoir.active_literals[index + 1]

\* ReservoirPrecedences over the pairs of consecutive events only.
ReservoirPrecedencesOfNeighbours(c, reservoir) ==
  LET num_events == Len(reservoir.time_exprs)
      pairs == {ij \in 0..(num_events * num_events - 1) :
                  /\ (ij \div num_events) + 1 = ij % num_events
                  /\ ~LiteralIsFalse(c, is_active_literal(reservoir, ij \div num_events))
                  /\ ~LiteralIsFalse(c, is_active_literal(reservoir, ij % num_events))}
      body(acc, ij) ==
        LET i == ij \div num_events
            j == ij % num_events
            time_i == reservoir.time_exprs[i + 1]
            time_j == reservoir.time_exprs[j + 1]
            active_i == is_active_literal(reservoir, i)
            active_j == is_active_literal(reservoir, j)
            store(i_lesseq_j, j_lesseq_i) ==
              [c |-> j_lesseq_i.c,
               cache |-> acc.cache \cup {<<i, j, i_lesseq_j.lit>>, <<j, i, j_lesseq_i.lit>>}]
            second(i_lesseq_j) ==
              store(i_lesseq_j,
                    GetOrCreateReifiedPrecedenceLiteral(
                      i_lesseq_j.c, time_j, time_i, active_j, active_i))
        IN  second(GetOrCreateReifiedPrecedenceLiteral(
                     acc.c, time_i, time_j, active_i, active_j))
  IN  FoldSet(body, [c |-> c, cache |-> {}], pairs)

\* Creates Boolean variables equivalent to (start[i] <= start[j]) i != j.
\* Returns [c, cache], cache the local map from <<i, j>> to the literal.
ReservoirPrecedences(c, reservoir) ==
  LET num_events == Len(reservoir.time_exprs)
      pairs == {ij \in 0..(num_events * num_events - 1) :
                  /\ ij \div num_events < ij % num_events
                  /\ ~LiteralIsFalse(c, is_active_literal(reservoir, ij \div num_events))
                  /\ ~LiteralIsFalse(c, is_active_literal(reservoir, ij % num_events))}
      body(acc, ij) ==
        LET i == ij \div num_events
            j == ij % num_events
            time_i == reservoir.time_exprs[i + 1]
            time_j == reservoir.time_exprs[j + 1]
            active_i == is_active_literal(reservoir, i)
            active_j == is_active_literal(reservoir, j)
            store(i_lesseq_j, j_lesseq_i) ==
              [c |-> j_lesseq_i.c,
               cache |-> acc.cache \cup {<<i, j, i_lesseq_j.lit>>, <<j, i, j_lesseq_i.lit>>}]
            second(i_lesseq_j) ==
              store(i_lesseq_j,
                    GetOrCreateReifiedPrecedenceLiteral(
                      i_lesseq_j.c, time_j, time_i, active_j, active_i))
        IN  second(GetOrCreateReifiedPrecedenceLiteral(
                     acc.c, time_i, time_j, active_i, active_j))
  IN  FoldSet(body, [c |-> c, cache |-> {}], pairs)

\* The level constraint of event i: the level changes of all predecessors,
\* own demand accounted for in the domain of the sum.
ReservoirLevel(c, reservoir, cache, i) ==
  LET num_events == Len(reservoir.time_exprs)
      active_i == is_active_literal(reservoir, i)
      others == {j \in 0..(num_events - 1) :
                   j # i /\ ~LiteralIsFalse(c, is_active_literal(reservoir, j))}
      prec_lit(j) == (CHOOSE e \in cache : e[1] = j /\ e[2] = i)[3]
      demand(j) == FixedValue(c, reservoir.level_changes[j + 1])
      term(acc, j) ==
        IF RefIsPositive(prec_lit(j))
          THEN [acc EXCEPT !.vars = Append(@, prec_lit(j)),
                           !.coeffs = Append(@, demand(j))]
          ELSE [acc EXCEPT !.vars = Append(@, prec_lit(j)),
                           !.coeffs = Append(@, -demand(j)),
                           !.offset = @ - demand(j)]
      sum == FoldSet(term, [vars |-> <<>>, coeffs |-> <<>>, offset |-> 0], others)
      demand_i == demand(i)
  IN  LinearCt(<<active_i>>, sum.vars, sum.coeffs,
               CapAdd(CapSub(reservoir.min_level, demand_i), sum.offset)
                 ..CapAdd(CapSub(reservoir.max_level, demand_i), sum.offset))

\* ReservoirLevel with the own demand of the event left out of the domain.
ReservoirLevelsWithoutOwnDemand(c, reservoir, cache) ==
  LET body(acc, i) ==
        IF LiteralIsFalse(acc, is_active_literal(reservoir, i)) THEN acc
        ELSE LET level == ReservoirLevel(acc, reservoir, cache, i)
             IN  AddConstraint(acc,
                   [level EXCEPT !.rhs = reservoir.min_level..reservoir.max_level])
  IN  FoldSet(body, c, 0..(Len(reservoir.time_exprs) - 1))

\* The lookup of the precedence of j before i misses for some possible
\* predecessor j of event i.
ReservoirLookupMisses(c, reservoir, cache, i) ==
  \E j \in 0..(Len(reservoir.time_exprs) - 1) :
    /\ j # i
    /\ ~LiteralIsFalse(c, is_active_literal(reservoir, j))
    /\ ~\E e \in cache : e[1] = j /\ e[2] = i

\* Constrains the running level to be consistent at all time_exprs; a
\* lookup that misses fails the CHECK.
ReservoirLevels(c, reservoir, cache) ==
  LET body(acc, i) ==
        IF acc.crashed THEN acc
        ELSE IF LiteralIsFalse(acc, is_active_literal(reservoir, i)) THEN acc
        ELSE IF ReservoirLookupMisses(acc, reservoir, cache, i) THEN CheckFailed(acc)
        ELSE AddConstraint(acc, ReservoirLevel(acc, reservoir, cache, i))
  IN  FoldSet(body, c, 0..(Len(reservoir.time_exprs) - 1))

\* If all level_changes have the same sign, only the sum matters.
ReservoirSum(c, reservoir) ==
  LET num_events == Len(reservoir.time_exprs)
  IN  AddConstraint(c,
        LinearCt(<<>>,
                 [k \in 1..num_events |-> is_active_literal(reservoir, k - 1)],
                 [k \in 1..num_events |-> FixedValue(c, reservoir.level_changes[k])],
                 reservoir.min_level..reservoir.max_level))

ExpandReservoir(c, i) ==
  LET reservoir == c.cts[i].arg
      demands == [k \in 1..Len(reservoir.level_changes) |->
                    FixedValue(c, reservoir.level_changes[k])]
      num_positives == Cardinality({k \in 1..Len(demands) : demands[k] > 0})
      num_negatives == Cardinality({k \in 1..Len(demands) : demands[k] < 0})
      levels(p) == ReservoirLevels(p.c, reservoir, p.cache)
  IN  IF reservoir.min_level > reservoir.max_level THEN NotifyThatModelIsUnsat(c)
      ELSE IF num_positives > 0 /\ num_negatives > 0
        THEN SetConstraint(levels(ReservoirPrecedences(c, reservoir)), i, ClearedCt)
      ELSE SetConstraint(ReservoirSum(c, reservoir), i, ClearedCt)

-----------------------------------------------------------------------------
(* Table.  arg = [vars, values, negated], values the tuples laid flat.     *)

\* std::numeric_limits<int64_t>::min(), as the least integer of the model.
kTableAnyValue == -2147483647

\* Read tuples flat array and recreate the vector of tuples.
TableTuples(table) ==
  LET num_vars == Len(table.vars)
  IN  [t \in 1..(Len(table.values) \div num_vars) |->
         [j \in 1..num_vars |-> table.values[(t - 1) * num_vars + j]]]

\* Lexicographic order on sequences of integers, a prefix first.
RECURSIVE SeqLess(_, _)
SeqLess(s, t) ==
  IF t = <<>> THEN FALSE
  ELSE IF s = <<>> THEN TRUE
  ELSE IF Head(s) # Head(t) THEN Head(s) < Head(t)
  ELSE SeqLess(Tail(s), Tail(t))

\* std::sort of a set of distinct integer sequences.
RECURSIVE SortSeqs(_)
SortSeqs(S) ==
  IF S = {} THEN <<>>
  ELSE LET m == CHOOSE x \in S : \A y \in S \ {x} : SeqLess(x, y)
       IN  <<m>> \o SortSeqs(S \ {m})

\* std::sort of a sequence of integer sequences, duplicates kept.
SortTuples(ts) ==
  LET sorted == SortSeqs(Range(ts))
      count(x) == Cardinality({k \in 1..Len(ts) : ts[k] = x})
      body(acc, k) == acc \o [n \in 1..count(sorted[k]) |-> sorted[k]]
  IN  FoldSet(body, <<>>, 1..Len(sorted))

\* CompressTuples: duplicates are removed and, column after column, the tuples
\* that agree elsewhere and cover the whole domain of the column are replaced
\* by one tuple with kTableAnyValue in the column.
RECURSIVE CompressColumns(_, _, _)
CompressColumns(domain_sizes, T, i) ==
  IF i > Len(domain_sizes) THEN T
  ELSE LET masked(t) == [j \in 1..Len(t) |-> IF j = i THEN kTableAnyValue ELSE t[j]]
           group(t) == {u \in T : masked(u) = masked(t)}
           full == {t \in T : Cardinality(group(t)) = domain_sizes[i]}
       IN  IF domain_sizes[i] = 1 THEN CompressColumns(domain_sizes, T, i + 1)
           ELSE CompressColumns(domain_sizes,
                                (T \ full) \cup {masked(t) : t \in full}, i + 1)

CompressTuples(domain_sizes, tuples) ==
  IF tuples = <<>> THEN tuples
  ELSE SortSeqs(CompressColumns(domain_sizes, Range(tuples), 1))

\* ExpandNegativeTable with the slot of the table erased from the model.
ExpandNegativeTableErasingSlot(c, i) ==
  LET table  == c.cts[i].arg
      num_vars == Len(table.vars)
      tuples == CompressTuples([j \in 1..num_vars |->
                                  Cardinality(DomainOf(c, table.vars[j]))],
                               TableTuples(table))
      forbid(acc, t) ==
        LET lit(a, j) ==
              LET e == GetOrCreateVarValueEncoding(a.c, table.vars[j], tuples[t][j])
              IN  IF tuples[t][j] = kTableAnyValue THEN a
                  ELSE [c |-> e.c, clause |-> Append(a.clause, NegatedRef(e.lit))]
            r == FoldSet(lit, [c |-> acc, clause |-> <<>>], 1..num_vars)
        IN  AddConstraint(r.c, BoolCt("bool_or", <<>>, r.clause))
      erase(x) == [x EXCEPT !.cts = SubSeq(@, 1, i - 1) \o SubSeq(@, i + 1, Len(@))]
  IN  IF TableTuples(table) = <<>> THEN erase(c)
      ELSE erase(FoldSet(forbid, c, 1..Len(tuples)))

\* For each tuple, forbid the variables values to be this tuple.
ExpandNegativeTable(c, i) ==
  LET table  == c.cts[i].arg
      num_vars == Len(table.vars)
      tuples == CompressTuples([j \in 1..num_vars |->
                                  Cardinality(DomainOf(c, table.vars[j]))],
                               TableTuples(table))
      forbid(acc, t) ==
        LET lit(a, j) ==
              LET e == GetOrCreateVarValueEncoding(a.c, table.vars[j], tuples[t][j])
              IN  IF tuples[t][j] = kTableAnyValue THEN a
                  ELSE [c |-> e.c, clause |-> Append(a.clause, NegatedRef(e.lit))]
            r == FoldSet(lit, [c |-> acc, clause |-> <<>>], 1..num_vars)
        IN  AddConstraint(r.c, BoolCt("bool_or", <<>>, r.clause))
  IN  IF TableTuples(table) = <<>> THEN SetConstraint(c, i, ClearedCt)
      ELSE SetConstraint(FoldSet(forbid, c, 1..Len(tuples)), i, ClearedCt)

\* Links one column of a table to the literals controlling if the tuples are
\* possible or not.  values[i] lists the values of tuple i, empty for any.
ProcessOneCompressedColumn(c, variable, tuple_literals, values) ==
  LET rows == 1..Len(values)
      any_values_literals ==
        [k \in 1..Cardinality({i \in rows : values[i] = <<>>}) |->
           tuple_literals[SortedSeq({i \in rows : values[i] = <<>>})[k]]]
      support(acc, i) ==
        LET lit(a, k) ==
              LET e == GetOrCreateVarValueEncoding(a.c, variable, values[i][k])
              IN  [c |-> e.c, lits |-> Append(a.lits, e.lit)]
            r == FoldSet(lit, [c |-> acc, lits |-> <<>>], 1..Len(values[i]))
        IN  IF values[i] = <<>> THEN acc
            ELSE AddConstraint(r.c, BoolCt("bool_or", <<tuple_literals[i]>>, r.lits))
      c1 == FoldSet(support, c, rows)
      flatten(acc, i) ==
        acc \o [k \in 1..Len(values[i]) |-> <<values[i][k], tuple_literals[i]>>]
      pairs == SortTuples(FoldSet(flatten, <<>>, rows))
      no_support(acc, value) ==
        LET selected == SelectSeq(pairs, LAMBDA pr : pr[1] = value)
            e == GetOrCreateVarValueEncoding(acc, variable, value)
        IN  AddConstraint(e.c,
              BoolCt("bool_or", <<>>,
                     [k \in 1..Len(selected) |-> selected[k][2]]
                       \o any_values_literals \o <<NegatedRef(e.lit)>>))
  IN  FoldSet(no_support, c1, {pairs[k][1] : k \in 1..Len(pairs)})

\* States that lit needs one of its support literals, unless it has as many
\* as the other variable has values.
add_support_constraint(c, lit, support_literals, max_support_size) ==
  IF Len(support_literals) = max_support_size THEN c
  ELSE IF Len(support_literals) = 1 THEN AddImplication(c, lit, support_literals[1])
  ELSE AddConstraint(c, BoolCt("bool_or", <<>>,
                               Append(support_literals, NegatedRef(lit))))

\* Simpler encoding for table constraints with 2 variables.
AddSizeTwoTable(c, vs, tuples, values_per_var) ==
  LET left_var  == vs[1]
      right_var == vs[2]
      link(acc, t) ==
        LET l == GetOrCreateVarValueEncoding(acc.c, left_var, tuples[t][1])
            r == GetOrCreateVarValueEncoding(l.c, right_var, tuples[t][2])
        IN  [c |-> r.c, links |-> Append(acc.links, <<l.lit, r.lit>>)]
      m == FoldSet(link, [c |-> c, links |-> <<>>], 1..Len(tuples))
      left_to_right(lit) ==
        LET sel == SelectSeq(m.links, LAMBDA pr : pr[1] = lit)
        IN  [k \in 1..Len(sel) |-> sel[k][2]]
      right_to_left(lit) ==
        LET sel == SelectSeq(m.links, LAMBDA pr : pr[2] = lit)
        IN  [k \in 1..Len(sel) |-> sel[k][1]]
      left(acc, lit) ==
        add_support_constraint(acc, lit, left_to_right(lit),
                               Cardinality(values_per_var[2]))
      right(acc, lit) ==
        add_support_constraint(acc, lit, right_to_left(lit),
                               Cardinality(values_per_var[1]))
      c1 == FoldSet(left, m.c, {m.links[k][1] : k \in 1..Len(m.links)})
  IN  IF IsFixed(c, left_var) \/ IsFixed(c, right_var) THEN c
      ELSE FoldSet(right, c1, {m.links[k][2] : k \in 1..Len(m.links)})

\* The tuple literals: the encoding literal of a value that is alone in its
\* cell and appears in no other tuple, a new Boolean otherwise.
\* Returns [c, lits].
TableTupleLiterals(c, vs, compressed_table) ==
  LET num_vars == Len(vs)
      rows == 1..Len(compressed_table)
      has_any(j) == \E i \in rows : compressed_table[i][j] = <<>>
      value_count(j, v) ==
        Cardinality({i \in rows : v \in Range(compressed_table[i][j])})
      reusable(i) ==
        {j \in 1..num_vars :
           /\ ~has_any(j)
           /\ Len(compressed_table[i][j]) = 1
           /\ value_count(j, compressed_table[i][j][1]) = 1}
      body(acc, i) ==
        LET j == Min(reusable(i))
            e == GetOrCreateVarValueEncoding(acc.c, vs[j], compressed_table[i][j][1])
        IN  IF reusable(i) # {}
              THEN [c |-> e.c, lits |-> Append(acc.lits, e.lit)]
              ELSE [c |-> NewBoolVar(acc.c), lits |-> Append(acc.lits, NumVars(acc.c))]
  IN  FoldSet(body, [c |-> c, lits |-> <<>>], rows)

\* The positive table over vs, without cost column.  Compression levels above
\* 2 (FullyCompressTuples) are outside the model.
CompressAndExpandPositiveTable(c, p, vs, tuples) ==
  LET num_vars == Len(vs)
      domain_sizes == [j \in 1..num_vars |-> Cardinality(DomainOf(c, vs[j]))]
      compressed == IF p.table_compression_level > 0
                      THEN CompressTuples(domain_sizes, tuples) ELSE tuples
      sorted == SortTuples(compressed)
      compressed_table ==
        [i \in 1..Len(sorted) |->
           [j \in 1..num_vars |->
              IF sorted[i][j] = kTableAnyValue THEN <<>> ELSE <<sorted[i][j]>>]]
      tl == TableTupleLiterals(c, vs, compressed_table)
      c1 == AddConstraint(tl.c, BoolCt("exactly_one", <<>>, tl.lits))
      column(acc, j) ==
        IF IsFixed(acc, vs[j]) THEN acc
        ELSE ProcessOneCompressedColumn(
               acc, vs[j], tl.lits,
               [i \in 1..Len(compressed_table) |-> compressed_table[i][j]])
  IN  IF Len(compressed_table) = 1 THEN c
      ELSE FoldSet(column, c1, 1..num_vars)

\* The reduction of a table with a cost column is entered only with
\* detect_table_with_cost, which the parameters of the model leave off.
ExpandPositiveTable(c, i, p) ==
  LET table == c.cts[i].arg
      vs == table.vars
      num_vars == Len(vs)
      original == TableTuples(table)
      keep(t) == \A j \in 1..num_vars : DomainContains(c, vs[j], original[t][j])
      tuples == [k \in 1..Cardinality({t \in 1..Len(original) : keep(t)}) |->
                   original[SortedSeq({t \in 1..Len(original) : keep(t)})[k]]]
      values_per_var == [j \in 1..num_vars |-> {tuples[t][j] : t \in 1..Len(tuples)}]
      update(acc, j) ==
        LET r == IntersectDomainWith(acc.c, vs[j], values_per_var[j])
        IN  IF acc.c.crashed THEN acc
            ELSE IF r.unsat THEN [acc EXCEPT !.c = CheckFailed(r)]
            ELSE [c |-> r,
                  num_fixed_variables |->
                    acc.num_fixed_variables + (IF IsFixed(r, vs[j]) THEN 1 ELSE 0)]
      u == FoldSet(update, [c |-> c, num_fixed_variables |-> 0], 1..num_vars)
  IN  IF tuples = <<>> THEN NotifyThatModelIsUnsat(c)
      ELSE IF u.c.crashed THEN u.c
      ELSE IF u.num_fixed_variables = num_vars - 1 \/ u.num_fixed_variables = num_vars
        THEN SetConstraint(u.c, i, ClearedCt)
      ELSE IF num_vars = 2 /\ ~p.detect_table_with_cost
        THEN SetConstraint(AddSizeTwoTable(u.c, vs, tuples, values_per_var), i, ClearedCt)
      ELSE SetConstraint(CompressAndExpandPositiveTable(u.c, p, vs, tuples), i, ClearedCt)

-----------------------------------------------------------------------------
(* The automaton expansion.  A hash map from values to literals is a       *)
(* function; where the code iterates over a hash map the model takes the   *)
(* keys in increasing order, which fixes the order of the emitted          *)
(* constraints and nothing else.                                           *)

EmptyMap == [k \in {} |-> 0]

MapPut(m, k, v) == [x \in DOMAIN m \cup {k} |-> IF x = k THEN v ELSE m[x]]

\* m[k] of a hash map: a missing key is inserted with the value 0.
MapIndex(m, k) == IF k \in DOMAIN m THEN m ELSE MapPut(m, k, 0)

\* The forward pass with the last step open to every head, final or not.
ForwardPassAnyLastHead(proto, c) ==
  LET n == Len(proto.vars)
      step(acc, time) ==
        LET ts == {t \in 1..Len(proto.transition_tail) :
                     /\ proto.transition_tail[t] \in acc.states[time + 1]
                     /\ DomainContains(c, proto.vars[time + 1], proto.transition_label[t])}
        IN  [states |-> Append(acc.states, {proto.transition_head[t] : t \in ts}),
             labels |-> Append(acc.labels, {proto.transition_label[t] : t \in ts})]
  IN  FoldSet(step, [states |-> <<{proto.starting_state}>>, labels |-> <<>>], 0..(n - 1))

\* Forward pass: states[time + 1] and labels[time] reached from the starting
\* state within the domains; the last step must end in a final state.
\* states is indexed from 1: states[time + 1] is the code's states[time].
ForwardPass(proto, c) ==
  LET n == Len(proto.vars)
      final_states == Range(proto.final_states)
      step(acc, time) ==
        LET ts == {t \in 1..Len(proto.transition_tail) :
                     /\ proto.transition_tail[t] \in acc.states[time + 1]
                     /\ DomainContains(c, proto.vars[time + 1], proto.transition_label[t])
                     /\ (time = n - 1 => proto.transition_head[t] \in final_states)}
        IN  [states |-> Append(acc.states, {proto.transition_head[t] : t \in ts}),
             labels |-> Append(acc.labels, {proto.transition_label[t] : t \in ts})]
  IN  FoldSet(step, [states |-> <<{proto.starting_state}>>, labels |-> <<>>], 0..(n - 1))

\* Backward pass, from the last time to the first.
BackwardPass(proto, fw) ==
  LET n == Len(proto.vars)
      step(acc, k) ==
        LET time == n - 1 - k
            ts == {t \in 1..Len(proto.transition_tail) :
                     /\ proto.transition_tail[t] \in acc.states[time + 1]
                     /\ proto.transition_label[t] \in acc.labels[time + 1]
                     /\ proto.transition_head[t] \in acc.states[time + 2]}
        IN  [states |-> [acc.states EXCEPT ![time + 1] = {proto.transition_tail[t] : t \in ts}],
             labels |-> [acc.labels EXCEPT ![time + 1] = {proto.transition_label[t] : t \in ts}]]
  IN  FoldSet(step, fw, 0..(n - 1))

PropagateAutomaton(proto, c) == BackwardPass(proto, ForwardPass(proto, c))

\* literals[i] true <=> encoding[values[i]] true; encoding.at() of a missing
\* value aborts.
LinkLiteralsAndValues(c, literals, values, encoding) ==
  LET support(encoding_lit) ==
        LET sel == SelectIdx(values, LAMBDA k : encoding[values[k]] = encoding_lit)
        IN  [k \in 1..Len(sel) |-> literals[sel[k]]]
      link(acc, encoding_lit) ==
        LET s == support(encoding_lit)
        IN  IF Len(s) = 1 THEN StoreBooleanEqualityRelation(acc, encoding_lit, s[1])
            ELSE FoldSeq(LAMBDA a, lit : AddImplication(a, lit, encoding_lit),
                         AddConstraint(acc, BoolCt("bool_or", <<>>,
                                                   <<NegatedRef(encoding_lit)>> \o s)),
                         s)
  IN  IF \E k \in 1..Len(values) : values[k] \notin DOMAIN encoding THEN CheckFailed(c)
      ELSE FoldSet(link, c, {encoding[values[k]] : k \in 1..Len(values)})

\* literal => one of encoding[v], v in reachable_values (a set here: the
\* code sorts the vector and removes its duplicates first).
AddImplyInReachableValues(c, literal, reachable_values, encoding) ==
  LET size == Cardinality(DOMAIN encoding)
      rv == SortedSeq(reachable_values)
      others == SortedSeq(DOMAIN encoding \ reachable_values)
  IN  IF Len(rv) = size THEN c
      ELSE IF Len(rv) <= size \div 2
        THEN IF ~(reachable_values \subseteq DOMAIN encoding) THEN CheckFailed(c)
             ELSE AddConstraint(c, BoolCt("bool_or", <<literal>>,
                                     [k \in 1..Len(rv) |-> encoding[rv[k]]]))
      ELSE AddConstraint(c, BoolCt("bool_and", <<literal>>,
                                   [k \in 1..Len(others) |-> NegatedRef(encoding[others[k]])]))

\* The Booleans of the out states of one step, for more than two states: the
\* literal of the only in state or of the only label of the state when their
\* counts agree, a new Boolean otherwise.  Returns [c, in_encoding,
\* out_encoding]; in_encoding[unique_in] inserts a missing key.
AutomatonOutEncoding(c, in_encoding, encoding, in_states, labels, out_states) ==
  LET tuples == 1..Len(in_states)
      in_count(v) == Cardinality({k \in tuples : in_states[k] = v})
      transition_count(v) == Cardinality({k \in tuples : labels[k] = v})
      out_count(v) == Cardinality({k \in tuples : out_states[k] = v})
      body(acc, state) ==
        LET ins == {in_states[k] : k \in {k \in tuples : out_states[k] = state}}
            trs == {labels[k] : k \in {k \in tuples : out_states[k] = state}}
            unique_in == CHOOSE v \in ins : TRUE
            unique_transition == CHOOSE v \in trs : TRUE
            ins1 == MapIndex(acc.in_encoding, unique_in)
        IN  IF /\ acc.in_encoding # EmptyMap
               /\ Cardinality(ins) = 1
               /\ in_count(unique_in) = out_count(state)
              THEN [acc EXCEPT !.in_encoding = ins1,
                               !.out_encoding = MapPut(@, state, ins1[unique_in])]
            ELSE IF /\ encoding # EmptyMap
                    /\ Cardinality(trs) = 1
                    /\ transition_count(unique_transition) = out_count(state)
              THEN [acc EXCEPT !.out_encoding = MapPut(@, state, encoding[unique_transition])]
            ELSE [acc EXCEPT !.c = NewBoolVar(@),
                             !.out_encoding = MapPut(@, state, NumVars(acc.c))]
  IN  FoldSet(body, [c |-> c, in_encoding |-> in_encoding, out_encoding |-> EmptyMap],
              Range(out_states))

\* The tuple literals of a step of three tuples or more.  Returns
\* [c, in_encoding, lits]; in_encoding[in_states[i]] inserts a missing key.
AutomatonTupleLiterals(c, in_encoding, encoding, out_encoding, in_states, labels, out_states) ==
  LET tuples == 1..Len(in_states)
      in_count(v) == Cardinality({k \in tuples : in_states[k] = v})
      transition_count(v) == Cardinality({k \in tuples : labels[k] = v})
      out_count(v) == Cardinality({k \in tuples : out_states[k] = v})
      body(acc, i) ==
        LET ins1 == MapIndex(acc.in_encoding, in_states[i])
        IN  IF in_count(in_states[i]) = 1 /\ acc.in_encoding # EmptyMap
              THEN [acc EXCEPT !.in_encoding = ins1,
                               !.lits = Append(@, ins1[in_states[i]])]
            ELSE IF transition_count(labels[i]) = 1 /\ encoding # EmptyMap
              THEN [acc EXCEPT !.lits = Append(@, encoding[labels[i]])]
            ELSE IF out_count(out_states[i]) = 1 /\ out_encoding # EmptyMap
              THEN [acc EXCEPT !.lits = Append(@, out_encoding[out_states[i]])]
            ELSE [acc EXCEPT !.c = NewBoolVar(@), !.lits = Append(@, NumVars(acc.c))]
  IN  FoldSet(body, [c |-> c, in_encoding |-> in_encoding, lits |-> <<>>], tuples)

\* The simple encoding of one step: each in state restricts the labels and
\* the out states, and each tuple is a clause.
AutomatonLightEncoding(c, in_encoding, encoding, out_encoding, in_states, labels, out_states) ==
  LET tuples == 1..Len(in_states)
      part1(acc, in_value) ==
        LET of_in == {k \in tuples : in_states[k] = in_value}
        IN  AddImplyInReachableValues(
              AddImplyInReachableValues(acc, in_encoding[in_value],
                                        {labels[k] : k \in of_in}, encoding),
              in_encoding[in_value], {out_states[k] : k \in of_in}, out_encoding)
      part2(acc, i) ==
        IF in_states[i] \notin DOMAIN in_encoding THEN CheckFailed(acc)
        ELSE AddConstraint(acc, BoolCt("bool_or", <<>>,
                                       <<NegatedRef(in_encoding[in_states[i]]),
                                         NegatedRef(encoding[labels[i]]),
                                         out_encoding[out_states[i]]>>))
  IN  FoldSet(part2, FoldSet(part1, c, DOMAIN in_encoding), tuples)

\* A step with a single tuple: the variable takes the label and every in
\* state but the tuple's is set to false.
AutomatonSingleTuple(acc, var, in_state, label) ==
  LET single == IntersectDomainWith(acc.c, var, {label})
      at_false == {acc.in_encoding[v] : v \in DOMAIN acc.in_encoding \ {in_state}}
      falsify(a, literal) ==
        IF a.returned THEN a
        ELSE LET r == SetLiteralToFalse(a.c, literal)
             IN  [a EXCEPT !.c = r, !.returned = DomainOf(r, literal) = {}]
  IN  IF DomainOf(single, var) = {}
        THEN [acc EXCEPT !.c = single, !.returned = TRUE]
        ELSE [FoldSet(falsify, [acc EXCEPT !.c = single], at_false)
                EXCEPT !.in_encoding = EmptyMap]

\* Link the tuple literals to the in states, the labels and the out states.
AutomatonLinkTuples(tl, encoding, out_encoding, in_states, labels, out_states) ==
  LET l1 == IF tl.in_encoding # EmptyMap
              THEN LinkLiteralsAndValues(tl.c, tl.lits, in_states, tl.in_encoding)
              ELSE tl.c
      l2 == IF encoding # EmptyMap /\ ~l1.crashed
              THEN LinkLiteralsAndValues(l1, tl.lits, labels, encoding) ELSE l1
  IN  IF out_encoding # EmptyMap /\ ~l2.crashed
        THEN LinkLiteralsAndValues(l2, tl.lits, out_states, out_encoding) ELSE l2

\* The encoding of the transitions of a step, out = [c, in_encoding,
\* out_encoding]: the light encoding when the tuples outnumber the Booleans
\* involved, one literal per tuple otherwise.
AutomatonTransitions(out, encoding, in_states, labels, out_states) ==
  LET num_tuples == Len(in_states)
      num_involved_variables ==
        Cardinality(DOMAIN out.in_encoding) + Cardinality(DOMAIN encoding)
          + Cardinality(DOMAIN out.out_encoding)
      use_light_encoding == num_tuples > num_involved_variables
      \* Create the tuple literals.
      tl == IF num_tuples = 2
              THEN [c |-> NewBoolVar(out.c), in_encoding |-> out.in_encoding,
                    lits |-> <<NumVars(out.c), NegatedRef(NumVars(out.c))>>]
            ELSE LET r == AutomatonTupleLiterals(out.c, out.in_encoding, encoding,
                                                 out.out_encoding,
                                                 in_states, labels, out_states)
                 IN  [r EXCEPT !.c = AddConstraint(@, BoolCt("exactly_one", <<>>, r.lits))]
  IN  IF /\ use_light_encoding
         /\ out.in_encoding # EmptyMap
         /\ encoding # EmptyMap
         /\ out.out_encoding # EmptyMap
        THEN [c |-> AutomatonLightEncoding(out.c, out.in_encoding, encoding,
                                           out.out_encoding,
                                           in_states, labels, out_states),
              in_encoding |-> out.out_encoding,
              returned |-> FALSE]
      ELSE [c |-> AutomatonLinkTuples(tl, encoding, out.out_encoding,
                                      in_states, labels, out_states),
            in_encoding |-> out.out_encoding, returned |-> FALSE]

\* For each possible out state, one Boolean; enc = [c, encoding] holds the
\* encoding of the labels.
AutomatonOutStates(in_encoding, enc, in_states, labels, out_states) ==
  LET states == SortedSeq(Range(out_states))
      bool_var == NumVars(enc.c)
      out == IF Len(states) = 2
               THEN [c |-> NewBoolVar(enc.c), in_encoding |-> in_encoding,
                     out_encoding |-> MapPut(MapPut(EmptyMap, states[1], bool_var),
                                             states[2], NegatedRef(bool_var))]
             ELSE IF Len(states) > 2
               THEN AutomatonOutEncoding(enc.c, in_encoding, enc.encoding,
                                         in_states, labels, out_states)
             ELSE [c |-> enc.c, in_encoding |-> in_encoding, out_encoding |-> EmptyMap]
  IN  AutomatonTransitions(out, enc.encoding, in_states, labels, out_states)

\* A step with several tuples: fully encode vars[time], then the out states
\* and the transitions.
AutomatonEncodeLabels(acc, var, in_states, labels, out_states) ==
  LET c1 == IntersectDomainWith(acc.c, var, Range(labels))
      encode(a, v) ==
        LET e == GetOrCreateVarValueEncoding(a.c, var, v)
        IN  [c |-> e.c, encoding |-> MapPut(a.encoding, v, e.lit)]
      enc == IF IsFixed(c1, var) THEN [c |-> c1, encoding |-> EmptyMap]
             ELSE FoldSet(encode, [c |-> c1, encoding |-> EmptyMap], DomainOf(c1, var))
  IN  IF DomainOf(c1, var) = {}
        THEN [acc EXCEPT !.c = c1, !.returned = TRUE]
      ELSE AutomatonOutStates(acc.in_encoding, enc, in_states, labels, out_states)

\* One time step of the expansion.  acc is [c, in_encoding, returned];
\* returned is set when the code returns before the end.
ExpandAutomatonStep(acc, proto, reachable_states, time) ==
  LET n == Len(proto.vars)
      var == proto.vars[time + 1]
      kept == SelectIdx(proto.transition_label,
                        LAMBDA t : /\ proto.transition_tail[t] \in reachable_states[time + 1]
                                   /\ proto.transition_head[t] \in reachable_states[time + 2]
                                   /\ DomainContains(acc.c, var, proto.transition_label[t]))
      in_states == [k \in 1..Len(kept) |-> proto.transition_tail[kept[k]]]
      labels == [k \in 1..Len(kept) |-> proto.transition_label[kept[k]]]
      out_states == [k \in 1..Len(kept) |->
                       IF time + 1 = n THEN 0 ELSE proto.transition_head[kept[k]]]
  IN  IF Len(kept) = 1
        THEN AutomatonSingleTuple(acc, var, in_states[1], labels[1])
      ELSE AutomatonEncodeLabels(acc, var, in_states, labels, out_states)

ExpandAutomaton(c, i) ==
  LET proto == c.cts[i].arg
      n == Len(proto.vars)
      reachable == PropagateAutomaton(proto, c)
      step(acc, time) ==
        IF acc.returned \/ acc.c.crashed THEN acc
        ELSE ExpandAutomatonStep(acc, proto, reachable.states, time)
      finish(r) == IF r.returned \/ r.c.crashed THEN r.c
                   ELSE SetConstraint(r.c, i, ClearedCt)
  IN  IF n = 0
        THEN IF proto.starting_state \in Range(proto.final_states)
               THEN SetConstraint(c, i, ClearedCt)
               ELSE NotifyThatModelIsUnsat(c)
      ELSE IF Len(proto.transition_label) = 0 THEN NotifyThatModelIsUnsat(c)
      ELSE finish(FoldSet(step, [c |-> c, in_encoding |-> EmptyMap, returned |-> FALSE],
                          0..(n - 1)))

-----------------------------------------------------------------------------
(* Modulo and product.  arg = [exprs, target].                             *)

\* Integer division of C++, which truncates toward zero; b > 0.
TruncDiv(a, b) == IF a >= 0 THEN a \div b ELSE -((-a) \div b)

PositiveModuloBySuperset(D, modulo) ==
  LET max_mod == Max(modulo) - 1
  IN  IF D = {} THEN {}
      ELSE IF Min(D) > 0 THEN 0..Min({Max(D), max_mod})
      ELSE IF Max(D) < 0 THEN Max({Min(D), -max_mod})..0
      ELSE Max({Min(D), -max_mod})..Min({Max(D), max_mod})

PositiveDivisionBySuperset(D, divisor) ==
  IF D = {} THEN {}
  ELSE Min({TruncDiv(Min(D), Max(divisor)), TruncDiv(Min(D), Min(divisor))})
         ..Max({TruncDiv(Max(D), Min(divisor)), TruncDiv(Max(D), Max(divisor))})

ContinuousMultiplicationBy(D, E) ==
  IF D = {} \/ E = {} THEN {}
  ELSE Hull({a * b : a \in {Min(D), Max(D)}, b \in {Min(E), Max(E)}})

Negation(D) == {-x : x \in D}

\* IntersectDomainWith of an affine expression.
ExprIntersectDomainWith(c, e, D) ==
  IF e.vars = <<>> THEN (IF e.offset \in D THEN c ELSE NotifyThatModelIsUnsat(c))
  ELSE IntersectDomainWith(c, e.vars[1],
         {x \in DomainOf(c, e.vars[1]) : e.coeffs[1] * x + e.offset \in D})

\* The linear constraint sum of coefficient * expression = 0 that successive
\* calls of AddLinearExpressionToLinearConstraint build; terms are pairs
\* <<expression, coefficient>>.
LinearOfExprs(enf, terms) ==
  LET add(lin, t) ==
        [vars   |-> lin.vars \o t[1].vars,
         coeffs |-> lin.coeffs \o [k \in 1..Len(t[1].coeffs) |-> t[1].coeffs[k] * t[2]],
         rhs    |-> {x - t[2] * t[1].offset : x \in lin.rhs}]
      lin == FoldSeq(add, [vars |-> <<>>, coeffs |-> <<>>, rhs |-> {0}], terms)
  IN  LinearCt(enf, lin.vars, lin.coeffs, lin.rhs)

ExpandIntMod(c, i) ==
  LET ct == c.cts[i]
      expr == ct.arg.exprs[1]
      mod_expr == ct.arg.exprs[2]
      target_expr == ct.arg.target
      c1 == ExprIntersectDomainWith(
              c, target_expr,
              PositiveModuloBySuperset(DomainSuperSetOf(c, expr),
                                       DomainSuperSetOf(c, mod_expr)))
      div_var == NumVars(c1)
      div_expr == Expr(div_var, 1, 0)
      c2 == AddConstraint(
              NewIntVar(c1, PositiveDivisionBySuperset(DomainSuperSetOf(c1, expr),
                                                       DomainSuperSetOf(c1, mod_expr))),
              ArgCt("int_div", ct.enf, [exprs |-> <<expr, mod_expr>>, target |-> div_expr]))
      prod_domain ==
        ContinuousMultiplicationBy(DomainOf(c2, div_var), DomainSuperSetOf(c2, mod_expr))
          \cap AdditionWith(DomainSuperSetOf(c2, expr),
                            Negation(DomainSuperSetOf(c2, target_expr)))
      prod_var == NumVars(c2)
      prod_expr == Expr(prod_var, 1, 0)
      c3 == AddConstraint(
              NewIntVar(c2, prod_domain),
              ArgCt("int_prod", ct.enf, [exprs |-> <<div_expr, mod_expr>>, target |-> prod_expr]))
      c4 == AddConstraint(c3, LinearOfExprs(ct.enf, <<<<expr, 1>>, <<prod_expr, -1>>,
                                                      <<target_expr, -1>>>>))
  IN  IF ExprIsFixed(c, mod_expr) THEN c
      ELSE IF c1.unsat THEN c1
      ELSE SetConstraint(c4, i, ClearedCt)

\* Returns [is_literal, literal].
ExpressionIsALiteral(c, e) ==
  IF Len(e.vars) # 1 THEN [is_literal |-> FALSE, literal |-> 0]
  ELSE LET ref == e.vars[1]
           var == PositiveRef(ref)
       IN  IF MinOf(c, var) < 0 \/ MaxOf(c, var) > 1
             THEN [is_literal |-> FALSE, literal |-> 0]
           ELSE IF e.offset = 0 /\ e.coeffs[1] = 1
             THEN [is_literal |-> TRUE, literal |-> ref]
           ELSE IF e.offset = 1 /\ e.coeffs[1] = -1
             THEN [is_literal |-> TRUE, literal |-> NegatedRef(ref)]
           ELSE [is_literal |-> FALSE, literal |-> 0]

ExpandIntProdWithBoolean(c, bool_ref, int_expr, product_expr) ==
  AddConstraint(
    AddConstraint(c, LinearOfExprs(<<bool_ref>>, <<<<int_expr, 1>>, <<product_expr, -1>>>>)),
    LinearOfExprs(<<NegatedRef(bool_ref)>>, <<<<product_expr, 1>>>>))

\* The second ExpressionIsALiteral writes the same out parameter as the
\* first, so with two literals the one of b is used.
ExpandIntProd(c, i) ==
  LET int_prod == c.cts[i].arg
      a == int_prod.exprs[1]
      b == int_prod.exprs[2]
      p == int_prod.target
      la == ExpressionIsALiteral(c, a)
      lb == ExpressionIsALiteral(c, b)
  IN  IF Len(int_prod.exprs) # 2 THEN c
      ELSE IF la.is_literal /\ ~lb.is_literal
        THEN SetConstraint(ExpandIntProdWithBoolean(c, la.literal, b, p), i, ClearedCt)
      ELSE IF lb.is_literal
        THEN SetConstraint(ExpandIntProdWithBoolean(c, lb.literal, a, p), i, ClearedCt)
      ELSE c

-----------------------------------------------------------------------------
(* Linear constraints whose right-hand side has several intervals.         *)

\* The intervals <<lb, ub>> of a domain, in increasing order.
IntervalsOf(D) ==
  LET starts == SortedSeq({x \in D : x - 1 \notin D})
      ends   == SortedSeq({x \in D : x + 1 \notin D})
  IN  [k \in 1..Len(starts) |-> <<starts[k], ends[k]>>]

\* ComplexLinearPiece as a plain copy of the original rhs, without the
\* sub-domain and without the sub-domain literal.
ComplexLinearPieceAsOriginal(ct, subdomain_literal, piece) ==
  LinearCt(<<>>, ct.vars, ct.coeffs, ct.rhs)

\* A copy of the original, but with a simple sub-domain and the sub-domain
\* literal as only enforcement literal.
ComplexLinearPiece(ct, subdomain_literal, piece) ==
  LinearCt(<<subdomain_literal>>, ct.vars, ct.coeffs, piece[1]..piece[2])

ExpandComplexLinearConstraint(c, i, p) ==
  LET ct == c.cts[i]
      rhs == ct.rhs
      pieces == IntervalsOf(rhs)
      \* Integer encoding: expr - slack = 0 with slack in rhs.
      slack == NumVars(c)
      with_slack ==
        SetConstraint(NewIntVar(c, rhs), i,
                      LinearCt(ct.enf, Append(ct.vars, slack), Append(ct.coeffs, -1), {0}))
      \* Boolean encoding.
      single == ct.enf = <<>> /\ Len(pieces) = 2
      single_bool == NumVars(c)
      clause_slot == Len(c.cts) + 1
      c0 == IF single THEN NewBoolVar(c)
            ELSE AddConstraint(c, BoolCt("bool_or", <<>>,
                                         [k \in 1..Len(ct.enf) |-> NegatedRef(ct.enf[k])]))
      piece(acc, k) ==
        LET subdomain_literal ==
              IF single THEN (IF k = 1 THEN single_bool ELSE NegatedRef(single_bool))
              ELSE NumVars(acc.c)
            c1 == IF single THEN acc.c
                  ELSE [NewBoolVar(acc.c) EXCEPT
                          !.cts[clause_slot].lits = Append(@, subdomain_literal)]
        IN  [c |-> AddConstraint(c1, ComplexLinearPiece(ct, subdomain_literal, pieces[k])),
             domain_literals |->
               IF single /\ k > 1 THEN acc.domain_literals
               ELSE Append(acc.domain_literals, subdomain_literal)]
      enc == FoldSet(piece, [c |-> c0, domain_literals |-> <<>>], 1..Len(pieces))
      \* Make sure all Booleans are tight when enumerating all solutions.
      linear_is_enforced == IF Len(ct.enf) = 1 THEN ct.enf[1] ELSE NumVars(enc.c)
      maintain_slot == Len(enc.c.cts) + 1
      e0 == IF Len(ct.enf) = 1 THEN enc.c
            ELSE FoldSeq(LAMBDA a, e_lit :
                           [AddImplication(a, NegatedRef(e_lit), NegatedRef(linear_is_enforced))
                              EXCEPT !.cts[maintain_slot].lits = Append(@, NegatedRef(e_lit))],
                         AddConstraint(NewBoolVar(enc.c), BoolCt("bool_or", <<>>, <<>>)),
                         ct.enf)
      e1 == IF Len(ct.enf) = 1 THEN e0
            ELSE [e0 EXCEPT !.cts[maintain_slot].lits = Append(@, linear_is_enforced)]
      tight == FoldSeq(LAMBDA a, lit :
                         AddImplication(a, NegatedRef(linear_is_enforced), NegatedRef(lit)),
                       e1, enc.domain_literals)
  IN  IF Len(pieces) <= 1 THEN c
      ELSE IF Len(ct.vars) = 1 THEN c
      ELSE IF p.encode_complex_linear_constraint_with_integer THEN with_slack
      ELSE SetConstraint(IF p.enumerate_all_solutions /\ ct.enf # <<>> THEN tight ELSE enc.c,
                         i, ClearedCt)

-----------------------------------------------------------------------------
(* Contexts the stage can be entered with.                                 *)

MkCtx(dom, enc, cts) ==
  [dom |-> dom, enc |-> enc, eqs |-> {}, cts |-> cts, unsat |-> FALSE,
   expanded |-> FALSE, prec |-> {}, crashed |-> FALSE]

\* Variable var, fully encoded beforehand: one fresh Boolean per value.
RECURSIVE FullyEncode(_, _, _)
FullyEncode(c, var, values) ==
  IF values = {} THEN c
  ELSE FullyEncode([NewBoolVar(c) EXCEPT
                      !.enc = @ \cup {<<var, Min(values), NumVars(c)>>}],
                   var, values \ {Min(values)})

DefaultParams ==
  [disable_constraint_expansion |-> FALSE, cp_model_presolve |-> TRUE,
   expand_reservoir_constraints |-> TRUE, expand_alldiff_constraints |-> FALSE,
   detect_table_with_cost |-> FALSE, table_compression_level |-> 0,
   encode_complex_linear_constraint_with_integer |-> FALSE,
   enumerate_all_solutions |-> FALSE]

NonEmptySubsets(S) == SUBSET S \ {{}}

Intervals(lo, hi) == {a..b : a \in lo..hi, b \in lo..hi} \ {{}}

\* The literal that stands for var == value in context c.
LiteralFor(c, var, value) ==
  IF EncodingOf(c, var, value) # {} THEN VarValueEncoding(c, var, value)
  ELSE IF c.dom[var + 1] = {value} THEN GetTrueLiteral
  ELSE GetFalseLiteral

\* No subsolver loop is running.
NoLoop == [kind |-> "none"]

\* The caches of the second pass, empty.
NoScan ==
  [domain_of_var_is_used |-> {}, bounds_of_var_are_used |-> {},
   processed_variables |-> {}]

\* The constraints appended since the stage was entered.
NewCts == SubSeq(ctx.cts, Len(ctx0.cts) + 1, Len(ctx.cts))

NewCtsOfKind(kind) == {i \in (Len(ctx0.cts) + 1)..Len(ctx.cts) : ctx.cts[i].kind = kind}

-----------------------------------------------------------------------------
(* Specification of the element expansion: one element constraint over an  *)
(* array of fixed variables, index variable 1, target variable 2.          *)

ElemMaxLen == 3

ElemValues == {7, 8, 9}

ElementInput(arr, idom, tdom, pre) ==
  LET base == MkCtx(<<{1}, idom, tdom>> \o [k \in 1..Len(arr) |-> {arr[k]}], {},
                    <<ArgCt("element", <<>>,
                            [index |-> 1, target |-> 2,
                             vars |-> [k \in 1..Len(arr) |-> k + 2]])>>)
  IN  IF pre THEN FullyEncode(base, 2, tdom) ELSE base

InitElement ==
  /\ \E n \in 1..ElemMaxLen :
       \E arr \in [1..n -> ElemValues], idom \in Intervals(-1, ElemMaxLen),
          tdom \in NonEmptySubsets(ElemValues), pre \in BOOLEAN :
         ctx = ElementInput(arr, idom, tdom, pre)
  /\ ctx0 = ctx
  /\ params = DefaultParams
  /\ pc = "start"
  /\ idx = 1
  /\ scan = NoScan
  /\ loop = NoLoop

DoExpandElement ==
  /\ pc = "start"
  /\ ctx' = ExpandElement(ctx, idx)
  /\ pc' = "done"
  /\ UNCHANGED <<loop, ctx0, params, idx, scan>>

NextElement == DoExpandElement

SpecElement == InitElement /\ [][NextElement]_vars


ElemArg == ctx0.cts[1].arg

ElemIndex == ElemArg.index

ElemTarget == ElemArg.target

\* The constant stored at position v of the array.
ElemArrayValue(v) == MinOf(ctx0, ElemArg.vars[v + 1])

\* The indices that survive the reduction of the index domain.
ElemSurviving ==
  {v \in DomainOf(ctx0, ElemIndex) :
     /\ 0 <= v
     /\ v < Len(ElemArg.vars)
     /\ ElemArrayValue(v) \in DomainOf(ctx0, ElemTarget)}

ElemIndicesOf(w) == {v \in ElemSurviving : ElemArrayValue(v) = w}

ElemIndexLits(S) ==
  [k \in 1..Cardinality(S) |-> LiteralFor(ctx, ElemIndex, SortedSeq(S)[k])]

\* a and b are the same literal, or stored as equal.
Aliased(c, a, b) == a = b \/ <<a, b>> \in c.eqs \/ <<b, a>> \in c.eqs

\* The scenario: array [7,7,9], index domain {0,1,2}, target domain {7,8,9}.
ElemScenario ==
  /\ Len(ElemArg.vars) = 3
  /\ [v \in 0..2 |-> ElemArrayValue(v)] = [v \in 0..2 |-> IF v = 2 THEN 9 ELSE 7]
  /\ DomainOf(ctx0, ElemIndex) = {0, 1, 2}
  /\ DomainOf(ctx0, ElemTarget) = {7, 8, 9}

\* C9: element over an array of constants.  When the expansion completes, the
\* target domain is the set of constants at the surviving indices; one
\* exactly_one over the (index == v) literals is emitted; a value at exactly one
\* surviving index has its (index == v) literal aliased with (target == value);
\* a value at several surviving indices gets the clause
\* not(target == value) or (index == v1) or ... over exactly those indices, and
\* no other clause is emitted.  For [7,7,9], index {0,1,2}, target {7,8,9}:
\* target in {7,9}, (index == 2) aliased with (target == 9) and the clause
\* not(target == 7) or (index == 0) or (index == 1).
C9_ElementConstantArray ==
  (pc = "done" /\ ~ctx.unsat) =>
    /\ ctx.cts[1] = ClearedCt
    /\ DomainOf(ctx, ElemIndex) = ElemSurviving
    /\ DomainOf(ctx, ElemTarget) = {ElemArrayValue(v) : v \in ElemSurviving}
    /\ \E i \in NewCtsOfKind("exactly_one") :
         /\ NewCtsOfKind("exactly_one") = {i}
         /\ ctx.cts[i].enf = <<>>
         /\ ctx.cts[i].lits = ElemIndexLits(ElemSurviving)
    /\ \A w \in DomainOf(ctx, ElemTarget) :
         IF Cardinality(ElemIndicesOf(w)) = 1
           THEN \A v \in ElemIndicesOf(w) :
                  Aliased(ctx, LiteralFor(ctx, ElemIndex, v),
                          LiteralFor(ctx, ElemTarget, w))
           ELSE \E i \in NewCtsOfKind("bool_or") :
                  /\ ctx.cts[i].enf = <<>>
                  /\ ctx.cts[i].lits =
                       <<NegatedRef(LiteralFor(ctx, ElemTarget, w))>>
                         \o ElemIndexLits(ElemIndicesOf(w))
    /\ Cardinality(NewCtsOfKind("bool_or")) =
         Cardinality({w \in DomainOf(ctx, ElemTarget) :
                        Cardinality(ElemIndicesOf(w)) > 1})
    /\ ElemScenario =>
         /\ DomainOf(ctx, ElemTarget) = {7, 9}
         /\ Aliased(ctx, LiteralFor(ctx, ElemIndex, 2), LiteralFor(ctx, ElemTarget, 9))
         /\ \E i \in NewCtsOfKind("bool_or") :
              ctx.cts[i].lits =
                <<NegatedRef(LiteralFor(ctx, ElemTarget, 7)),
                  LiteralFor(ctx, ElemIndex, 0), LiteralFor(ctx, ElemIndex, 1)>>

\* The scenario has been expanded, with distinct literals in its clause.
C9_Witness ==
  /\ pc = "done"
  /\ ~ctx.unsat
  /\ ElemScenario
  /\ \E i \in NewCtsOfKind("bool_or") :
       /\ Len(ctx.cts[i].lits) = 3
       /\ Cardinality(Range(ctx.cts[i].lits)) = 3


-----------------------------------------------------------------------------
(* Specification of the size-two linear expansion: one linear constraint   *)
(* over variables 1 and 2, possibly enforced by the Boolean variable 3.    *)

Lin2MaxX == 5

Lin2Coeffs == {<<2, 3>>, <<1, -1>>, <<2, 2>>, <<-1, 2>>, <<3, -2>>}

\* The right-hand sides: everything but one value, or everything up to one.
Lin2Rhs ==
  {Universe \ {v} : v \in {0, 2, 6, 12}} \cup {{w \in Universe : w <= v} : v \in {0, 6}}

\* Which of the two variables are fully encoded beforehand.
Lin2Encoded == {<<TRUE, TRUE>>, <<TRUE, FALSE>>, <<FALSE, TRUE>>}

Lin2Input(d1, d2, ab, rhs, enforced, pre) ==
  LET base == MkCtx(<<{1}, d1, d2, {0, 1}>>, {},
                    <<LinearCt(IF enforced THEN <<3>> ELSE <<>>, <<1, 2>>, ab, rhs)>>)
      c1   == IF pre[1] THEN FullyEncode(base, 1, d1) ELSE base
  IN  IF pre[2] THEN FullyEncode(c1, 2, d2) ELSE c1

InitLin2 ==
  /\ \E d1 \in Intervals(0, Lin2MaxX), d2 \in Intervals(0, Lin2MaxX - 1),
        ab \in Lin2Coeffs, rhs \in Lin2Rhs, enforced \in BOOLEAN, pre \in Lin2Encoded :
       ctx = Lin2Input(d1, d2, ab, rhs, enforced, pre)
  /\ ctx0 = ctx
  /\ params = DefaultParams
  /\ pc = "start"
  /\ idx = 1
  /\ scan = NoScan
  /\ loop = NoLoop

DoExpandSomeLinearOfSizeTwo ==
  /\ pc = "start"
  /\ ctx' = ExpandSomeLinearOfSizeTwo(ctx, idx)
  /\ pc' = "done"
  /\ UNCHANGED <<loop, ctx0, params, idx, scan>>

NextLin2 == DoExpandSomeLinearOfSizeTwo

SpecLin2 == InitLin2 /\ [][NextLin2]_vars

Lin2Ct == ctx0.cts[1]

\* The values a.x + b.y takes over the domains and the constraint forbids.
Lin2Forbidden ==
  {v \in {Lin2Ct.coeffs[1] * x + Lin2Ct.coeffs[2] * y :
            x \in DomainOf(ctx0, 1), y \in DomainOf(ctx0, 2)} : v \notin Lin2Ct.rhs}

\* The pairs of domain values with a.vx + b.vy = cte.
Lin2Pairs ==
  {p \in DomainOf(ctx0, 1) \X DomainOf(ctx0, 2) :
     Lin2Ct.coeffs[1] * p[1] + Lin2Ct.coeffs[2] * p[2] \in Lin2Forbidden}

\* not(x == vx) or not(y == vy) or not(e1) or ... or not(ek)
Lin2Clause(p) ==
  BoolCt("bool_or", <<>>,
         <<NegatedRef(LiteralFor(ctx0, 1, p[1])), NegatedRef(LiteralFor(ctx0, 2, p[2]))>>
           \o [k \in 1..Len(Lin2Ct.enf) |-> NegatedRef(Lin2Ct.enf[k])])

Lin2Rewritten == pc = "done" /\ ctx.cts[1] = ClearedCt

\* The scenario: 2x + 3y != 12 with x in 0..5 and y in 0..4.
Lin2Scenario ==
  /\ Lin2Ct.coeffs = <<2, 3>>
  /\ Lin2Ct.rhs = Universe \ {12}
  /\ DomainOf(ctx0, 1) = 0..5
  /\ DomainOf(ctx0, 2) = 0..4
  /\ Lin2Ct.enf = <<>>

\* C10: when the size-two expansion rewrites a.x + b.y != cte, it emits exactly
\* one clause per pair (vx, vy) of domain values with a.vx + b.vy = cte and no
\* other constraint; each clause is not(x == vx) or not(y == vy) or not(e1) or
\* ... or not(ek) over the enforcement literals of the constraint.  For
\* 2x + 3y != 12 with x in 0..5, y in 0..4 fully encoded, exactly two clauses
\* are emitted, forbidding (0, 4) and (3, 2).
C10_SizeTwoClauses ==
  Lin2Rewritten =>
    /\ Cardinality(Lin2Forbidden) = 1
    /\ Len(NewCts) = Cardinality(Lin2Pairs)
    /\ \A p \in Lin2Pairs :
         Cardinality({k \in 1..Len(NewCts) : NewCts[k] = Lin2Clause(p)}) = 1
    /\ \A p \in Lin2Pairs :
         /\ EncodingOf(ctx0, 1, p[1]) # {}
         /\ EncodingOf(ctx0, 2, p[2]) # {}
    /\ ctx.dom = ctx0.dom
    /\ ctx.enc = ctx0.enc
    /\ Lin2Scenario =>
         /\ Len(NewCts) = 2
         /\ Range(NewCts) = {Lin2Clause(<<0, 4>>), Lin2Clause(<<3, 2>>)}

\* The scenario has been rewritten into two clauses.
C10_Witness ==
  /\ Lin2Rewritten
  /\ Lin2Scenario
  /\ Len(NewCts) = 2

-----------------------------------------------------------------------------
(* Specification of the inverse expansion: one inverse constraint over     *)
(* variables 1..m, some of them possibly used twice.                       *)

InvMaxN == 3

\* The two vectors: distinct variables, a variable used at f_direct[i] and
\* f_inverse[j] with i = j and with i # j, a variable used twice in f_direct
\* or in f_inverse, a negated reference.
InvShapes ==
  {s \in {[f |-> <<1>>, r |-> <<2>>],
          [f |-> <<1>>, r |-> <<1>>],
          [f |-> <<NegatedRef(1)>>, r |-> <<2>>],
          [f |-> <<1, 2>>, r |-> <<3, 4>>],
          [f |-> <<1, 2>>, r |-> <<1, 3>>],
          [f |-> <<1, 2>>, r |-> <<3, 1>>],
          [f |-> <<1, 2>>, r |-> <<2, 1>>],
          [f |-> <<1, 2>>, r |-> <<3, 2>>],
          [f |-> <<1, 2>>, r |-> <<3, 3>>],
          [f |-> <<1, 1>>, r |-> <<2, 3>>],
          [f |-> <<1, NegatedRef(2)>>, r |-> <<3, 4>>],
          [f |-> <<1, 2, 3>>, r |-> <<4, 5, 6>>],
          [f |-> <<1, 2, 3>>, r |-> <<4, 1, 5>>],
          [f |-> <<1, 2, 3>>, r |-> <<2, 3, 1>>],
          [f |-> <<1, 2, 3, 4>>, r |-> <<5, 6, 7, 8>>]} : Len(s.f) <= InvMaxN}

InvNumVars(s) == Max({PositiveRef(s.f[k]) : k \in 1..Len(s.f)}
                       \cup {PositiveRef(s.r[k]) : k \in 1..Len(s.r)})

InvDomains(n) == {0..(n - 1), 1..n, {0, n - 1}, (-1)..0}

\* The last variable is fully encoded beforehand when pre holds.
InvInput(s, doms, pre) ==
  LET base == MkCtx(<<{1}>> \o doms, {},
                    <<ArgCt("inverse", <<>>, [f_direct |-> s.f, f_inverse |-> s.r])>>)
  IN  IF pre THEN FullyEncode(base, InvNumVars(s), doms[InvNumVars(s)]) ELSE base

InitInverse ==
  /\ \E s \in InvShapes :
       \E doms \in [1..InvNumVars(s) -> InvDomains(Len(s.f))], pre \in BOOLEAN :
         ctx = InvInput(s, doms, pre)
  /\ ctx0 = ctx
  /\ params = DefaultParams
  /\ pc = "start"
  /\ idx = 1
  /\ scan = NoScan
  /\ loop = NoLoop

DoExpandInverse ==
  /\ pc = "start"
  /\ ctx' = ExpandInverse(ctx, idx)
  /\ pc' = "done"
  /\ UNCHANGED <<loop, ctx0, params, idx, scan>>

NextInverse == DoExpandInverse

SpecInverse == InitInverse /\ [][NextInverse]_vars

InvArg == ctx0.cts[1].arg

InvN == Len(InvArg.f_direct)

\* The number of variables the two vectors are over.
InvM == InvNumVars([f |-> InvArg.f_direct, r |-> InvArg.f_inverse])

\* The sequences with s[k] in doms[k] for every k.
RECURSIVE Product(_)
Product(doms) ==
  IF doms = <<>> THEN {<<>>}
  ELSE {<<x>> \o t : x \in Head(doms), t \in Product(Tail(doms))}

\* The value assignment B (B[v] the value of variable v) gives to ref.
ValueIn(B, ref) == IF ref >= 0 THEN B[ref] ELSE -B[PositiveRef(ref)]

\* f_inverse[f_direct[i]] == i and f_direct[f_inverse[j]] == j for all i, j.
InvRelation(B) ==
  /\ \A i \in 0..(InvN - 1) :
       /\ ValueIn(B, InvArg.f_direct[i + 1]) \in 0..(InvN - 1)
       /\ ValueIn(B, InvArg.f_inverse[ValueIn(B, InvArg.f_direct[i + 1]) + 1]) = i
  /\ \A j \in 0..(InvN - 1) :
       /\ ValueIn(B, InvArg.f_inverse[j + 1]) \in 0..(InvN - 1)
       /\ ValueIn(B, InvArg.f_direct[ValueIn(B, InvArg.f_inverse[j + 1]) + 1]) = j

InvCompleted == pc = "done" /\ ctx.cts[1] = ClearedCt

\* The scenario: n = 3, six distinct variables of domain {0, 1, 2}.
InvScenario ==
  /\ InvArg.f_direct = <<1, 2, 3>>
  /\ InvArg.f_inverse = <<4, 5, 6>>
  /\ \A v \in 1..6 : DomainOf(ctx0, v) = {0, 1, 2}

\* C4: after the inverse expansion completes, the assignments of the variables
\* of f_direct and f_inverse that are consistent with the reduced domains and
\* the shared encoding literals are exactly the assignments within the
\* domains with f_inverse[f_direct[i]] == i and f_direct[f_inverse[j]] == j for
\* all i, j; for n = 3 with six distinct variables of domain {0, 1, 2} they are
\* the 6 permutation assignments.
C4_InverseExact ==
  InvCompleted =>
    /\ Projection(Solutions(ctx), InvM)
         = {B \in Product(SubSeq(ctx0.dom, 2, InvM + 1)) : InvRelation(B)}
    /\ InvScenario =>
         /\ Cardinality(Projection(Solutions(ctx), InvM)) = 6
         /\ \A B \in Projection(Solutions(ctx), InvM) :
              /\ {B[k] : k \in 1..3} = {0, 1, 2}
              /\ \A k \in 1..3 : B[3 + B[k] + 1] = k - 1

\* The scenario has been expanded and has a permutation as solution.
C4_Witness ==
  /\ InvCompleted
  /\ InvScenario
  /\ <<1, 2, 0, 2, 0, 1>> \in Projection(Solutions(ctx), InvM)

-----------------------------------------------------------------------------
(* The second pass of ExpandCpModel, entered with pc = "pass2" and idx the  *)
(* slot it looks at next.                                                  *)

\* An early exit that is never taken.
EarlyExitNever(c) == FALSE

\* Early exit if the model is unsat.
EarlyExit(c) == c.unsat

Pass2At(kinds) ==
  /\ pc = "pass2"
  /\ idx <= Len(ctx.cts)
  /\ ctx.cts[idx].kind \in kinds

\* After a constraint was handled: early exit if the model is unsat.
Pass2Handled ==
  /\ idx' = idx + 1
  /\ pc' = IF EarlyExit(ctx') THEN "aborted" ELSE "pass2"
  /\ UNCHANGED <<loop, ctx0, params>>

Pass2AllDiff ==
  /\ Pass2At({"all_diff"})
  /\ \E r \in {MaybeExpandAllDiff(ctx, idx, params, scan)} :
       /\ ctx' = r.c
       /\ scan' = r.scan
  /\ Pass2Handled

Pass2Linear ==
  /\ Pass2At({"linear"})
  /\ ctx' = ExpandSomeLinearOfSizeTwo(ctx, idx)
  /\ scan' = scan
  /\ Pass2Handled

Pass2Skip ==
  /\ pc = "pass2"
  /\ idx <= Len(ctx.cts)
  /\ ctx.cts[idx].kind \notin {"all_diff", "linear"}
  /\ idx' = idx + 1
  /\ UNCHANGED <<loop, ctx, ctx0, params, pc, scan>>

\* ClearPrecedenceCache, InitializeNewDomains, FillDomainInProto and
\* NotifyThatModelIsExpanded.
Pass2End ==
  /\ pc = "pass2"
  /\ idx > Len(ctx.cts)
  /\ ctx' = [ctx EXCEPT !.prec = {}, !.expanded = TRUE]
  /\ pc' = "done"
  /\ UNCHANGED <<loop, ctx0, params, idx, scan>>

-----------------------------------------------------------------------------
(* Specification of the all different expansion: the second pass over a    *)
(* model of three variables with an all different in slot 1.               *)

AllDiffMaxVal == 2

\* The domain that is too large to be expanded unless fully encoded.
AllDiffWide == 0..40

AllDiffShapes ==
  {<<Expr(1, 1, 0), Expr(2, 1, 0)>>,
   <<Expr(1, 1, 0), Expr(2, 1, 0), Expr(3, 1, 0)>>,
   <<Expr(1, 1, 0), Expr(1, 1, 0)>>,
   <<Expr(1, 1, 0), Expr(1, 1, 1), Expr(2, 1, 0)>>,
   <<Expr(1, 1, 0), Expr(2, 1, 1)>>,
   <<Expr(1, 2, 0), Expr(2, 1, 0)>>,
   <<Expr(1, -1, 2), Expr(2, 1, 0), Expr(3, 1, 0)>>,
   <<Expr(1, 1, 0), ConstExpr(1), Expr(2, 1, 0)>>,
   <<Expr(1, 1, 0), ConstExpr(1), ConstExpr(1)>>,
   <<Expr(1, 1, 0)>>}

\* What else the model holds: nothing, an encoding constraint of variable 1,
\* a linear equation of three terms, a lin_max, a second all different.
AllDiffOthers ==
  {<<>>,
   <<LinearCt(<<>>, <<1>>, <<1>>, {1})>>,
   <<LinearCt(<<>>, <<1, 2, 3>>, <<1, 1, 1>>, {3})>>,
   <<ArgCt("lin_max", <<>>, [vars |-> <<1, 2>>])>>,
   <<ArgCt("all_diff", <<>>, [exprs |-> <<Expr(1, 1, 0), Expr(3, 1, 0)>>])>>}

AllDiffSmallInput(exprs, doms, others) ==
  MkCtx(<<{1}>> \o doms, {}, <<ArgCt("all_diff", <<>>, [exprs |-> exprs])>> \o others)

AllDiffWideInput(d2, pre) ==
  LET base == MkCtx(<<{1}, AllDiffWide, d2, {0}>>, {},
                    <<ArgCt("all_diff", <<>>,
                            [exprs |-> <<Expr(1, 1, 0), Expr(2, 1, 0)>>])>>)
  IN  IF pre THEN FullyEncode(base, 1, AllDiffWide) ELSE base

InitAllDiff ==
  /\ \/ \E exprs \in AllDiffShapes, doms \in [1..3 -> NonEmptySubsets(0..AllDiffMaxVal)],
           others \in AllDiffOthers :
          /\ ctx = AllDiffSmallInput(exprs, doms, others)
          /\ params = DefaultParams
     \/ \E d2 \in {{0}, {1, 2}}, pre \in BOOLEAN, b \in BOOLEAN :
          /\ ctx = AllDiffWideInput(d2, pre)
          /\ params = [DefaultParams EXCEPT !.expand_alldiff_constraints = b]
  /\ ctx0 = ctx
  /\ pc = "pass2"
  /\ idx = 1
  /\ scan = NoScan
  /\ loop = NoLoop

NextAllDiff == Pass2AllDiff \/ Pass2Linear \/ Pass2Skip \/ Pass2End

SpecAllDiff == InitAllDiff /\ [][NextAllDiff]_vars

\* The original slots that held an all different and were cleared.
AllDiffCleared ==
  {k \in 1..Len(ctx0.cts) : ctx0.cts[k].kind = "all_diff" /\ ctx.cts[k] = ClearedCt}

ExprValue(B, e) ==
  IF e.vars = <<>> THEN e.offset ELSE e.coeffs[1] * ValueIn(B, e.vars[1]) + e.offset

PairwiseDistinct(B, exprs) ==
  \A k1, k2 \in 1..Len(exprs) :
    k1 # k2 => ExprValue(B, exprs[k1]) # ExprValue(B, exprs[k2])

\* The context with the constraints the stage was entered with taken out.
EmittedOnly(c) ==
  [c EXCEPT !.cts = [k \in 1..Len(c.cts) |->
                       IF k <= Len(ctx0.cts) THEN ClearedCt ELSE c.cts[k]]]

\* C6: once the pass is over, the all different constraints it expanded and
\* cleared are equivalent to what was emitted for them: the assignments of the variables within the
\* (possibly reduced) domains that satisfy every emitted at most one / exactly
\* one over the (expr == v) literals are the assignments of the entry domains
\* whose expressions take pairwise distinct values; and the model is marked
\* infeasible only when some all different has no such assignment.
C6_AllDiffEquivalent ==
  /\ (pc = "done" /\ ~ctx.unsat) =>
       Projection(Solutions(EmittedOnly(ctx)), 3)
         = {B \in Product(SubSeq(ctx0.dom, 2, 4)) :
              \A k \in AllDiffCleared : PairwiseDistinct(B, ctx0.cts[k].arg.exprs)}
  /\ (pc = "aborted" /\ ctx.unsat) =>
       {B \in Product(SubSeq(ctx0.dom, 2, 4)) :
          \A k \in 1..Len(ctx0.cts) :
            ctx0.cts[k].kind = "all_diff" =>
              PairwiseDistinct(B, ctx0.cts[k].arg.exprs)} = {}

\* An all different over three variables was expanded and cleared, a domain was
\* reduced on the way and an assignment is left.
C6_Witness ==
  /\ pc = "done"
  /\ Len(ctx0.cts) = 1
  /\ Len(ctx0.cts[1].arg.exprs) = 3
  /\ AllDiffCleared = {1}
  /\ ctx.dom # ctx0.dom
  /\ Cardinality(NewCtsOfKind("at_most_one")) >= 2
  /\ Solutions(EmittedOnly(ctx)) # {}

-----------------------------------------------------------------------------
(* The all different over as many variables as values: AllDiffPermSize     *)
(* variables 1..AllDiffPermSize, one expression per variable.              *)

AllDiffPermSize == 4

AllDiffPermDomains ==
  {0..(AllDiffPermSize - 1), 0..(AllDiffPermSize - 2), 1..(AllDiffPermSize - 1),
   {0, AllDiffPermSize - 1}, {2}}

AllDiffPermInput(doms) ==
  MkCtx(<<{1}>> \o doms, {},
        <<ArgCt("all_diff", <<>>, [exprs |-> [k \in 1..Len(doms) |-> Expr(k, 1, 0)]])>>)

InitAllDiffPerm ==
  /\ \E doms \in [1..AllDiffPermSize -> AllDiffPermDomains] :
       ctx = AllDiffPermInput(doms)
  /\ params = DefaultParams
  /\ ctx0 = ctx
  /\ pc = "pass2"
  /\ idx = 1
  /\ scan = NoScan
  /\ loop = NoLoop

SpecAllDiffValues == (InitAllDiff \/ InitAllDiffPerm) /\ [][NextAllDiff]_vars

\* The literal of (e == v) in context c; entry is the context at the entry of
\* the expansion, where v is a value of e.
AllDiffLiteral(c, entry, e, v) ==
  IF e.vars = <<>> THEN GetTrueLiteral
  ELSE LiteralFor(c, e.vars[1],
                  CHOOSE x \in DomainOf(entry, e.vars[1]) : e.coeffs[1] * x + e.offset = v)

\* The literals of (exprs[k] == v), k in K, in the order of the expressions.
AllDiffLiterals(c, entry, exprs, K, v) ==
  LET ks == SelectIdx(exprs, LAMBDA k : k \in K)
  IN  [m \in 1..Len(ks) |-> AllDiffLiteral(c, entry, exprs[ks[m]], v)]

\* A step of the second pass that expands the all different of slot idx and
\* runs to completion emits one constraint per value v of the union of the
\* domains at entry, in increasing order of v: an exactly one when the union
\* has as many values as there are expressions, an at most one otherwise,
\* over the (expr == v) literals of expressions that could take v at entry
\* and among them of every expression that can still take v at the end; of
\* exactly the latter when no variable occurs in two expressions.
C11_Step ==
  (Pass2At({"all_diff"}) /\ ~ctx'.unsat /\ Len(ctx'.cts) > Len(ctx.cts)) =>
    LET exprs == ctx.cts[idx].arg.exprs
        num_exprs == Len(exprs)
        union == UNION {DomainSuperSetOf(ctx, exprs[k]) : k \in 1..num_exprs}
        values == SortedSeq(union)
        emitted == SubSeq(ctx'.cts, Len(ctx.cts) + 1, Len(ctx'.cts))
        at_entry(v) == {k \in 1..num_exprs : ExprDomainContains(ctx, exprs[k], v)}
        at_end(v) == {k \in 1..num_exprs : ExprDomainContains(ctx', exprs[k], v)}
        distinct == \A k1, k2 \in 1..num_exprs :
                      k1 # k2 => Range(exprs[k1].vars) \cap Range(exprs[k2].vars) = {}
    IN  /\ Len(emitted) = Len(values)
        /\ \A j \in 1..Len(emitted) :
             /\ emitted[j].kind = IF num_exprs = Cardinality(union)
                                    THEN "exactly_one" ELSE "at_most_one"
             /\ emitted[j].enf = <<>>
             /\ \E K \in SUBSET at_entry(values[j]) :
                  /\ at_end(values[j]) \subseteq K
                  /\ distinct => K = at_end(values[j])
                  /\ emitted[j].lits = AllDiffLiterals(ctx', ctx, exprs, K, values[j])

\* The all different over AllDiffPermSize variables whose domains cover as
\* many values has been expanded.
AllDiffPermScenario ==
  /\ pc = "done"
  /\ ctx0 \in {AllDiffPermInput(doms) : doms \in [1..AllDiffPermSize -> AllDiffPermDomains]}
  /\ Cardinality(UNION {ctx0.dom[k + 1] : k \in 1..AllDiffPermSize}) = AllDiffPermSize
  /\ ~ctx.unsat

AllDiffPermEmitted ==
  AllDiffPermScenario =>
    /\ Len(ctx.cts) = Len(ctx0.cts) + AllDiffPermSize
    /\ Cardinality(NewCtsOfKind("exactly_one")) = AllDiffPermSize
    /\ ctx.cts[1] = ClearedCt

\* C11: every expansion of an all different that runs to completion emits
\* exactly one constraint per value of the union of the expression domains,
\* over the (expr == v) literals of the expressions that still hold v, all
\* of them exactly one when the union has as many values as there are
\* expressions and at most one otherwise; as many expressions as values give
\* that many exactly one constraints.
C11_OnePerValue == [][C11_Step]_vars /\ []AllDiffPermEmitted

\* Four expressions free over four values have been expanded.
C11_Witness ==
  /\ AllDiffPermScenario
  /\ \A k \in 1..AllDiffPermSize : ctx0.dom[k + 1] = 0..(AllDiffPermSize - 1)
  /\ Cardinality(NewCtsOfKind("exactly_one")) = 4

-----------------------------------------------------------------------------
(* Specification of the reservoir expansion: one reservoir over events     *)
(* with times in variables 1..n and active literals in variables n+1..2n.  *)

ResMaxEvents == 3

ResMaxTime == 1

ResDemands == {-1, 1, 2}

ResLevels == {<<0, 1>>, <<-1, 1>>, <<1, 0>>}

\* The time expressions of n events: one variable each, or the first two
\* events at the same variable, or the last event at a constant time.
ResTimes(n) ==
  {[k \in 1..n |-> Expr(k, 1, 0)],
   [k \in 1..n |-> IF k = 2 THEN Expr(1, 1, 0) ELSE Expr(k, 1, 0)],
   [k \in 1..n |-> IF k = n THEN ConstExpr(1) ELSE Expr(k, 1, 0)]}

\* The active literals of n events and the domains of their variables: none,
\* the first one false, the first one negated.
ResActives(n) ==
  {[lits |-> <<>>, doms |-> <<>>],
   [lits |-> [k \in 1..n |-> n + k],
    doms |-> [k \in 1..n |-> IF k = 1 THEN {0} ELSE {0, 1}]],
   [lits |-> [k \in 1..n |-> IF k = 1 THEN NegatedRef(n + k) ELSE n + k],
    doms |-> [k \in 1..n |-> {0, 1}]]}

ResInput(n, tdoms, times, demands, act, levels) ==
  MkCtx(<<{1}>> \o tdoms \o act.doms, {},
        <<ArgCt("reservoir", <<>>,
                [time_exprs |-> times,
                 level_changes |-> [k \in 1..n |-> ConstExpr(demands[k])],
                 active_literals |-> act.lits,
                 min_level |-> levels[1], max_level |-> levels[2]])>>)

InitReservoir ==
  /\ \E n \in 2..ResMaxEvents :
       \E tdoms \in [1..n -> {0..ResMaxTime, {0}}], times \in ResTimes(n),
          demands \in [1..n -> ResDemands], act \in ResActives(n), levels \in ResLevels :
         ctx = ResInput(n, tdoms, times, demands, act, levels)
  /\ ctx0 = ctx
  /\ params = DefaultParams
  /\ pc = "start"
  /\ idx = 1
  /\ scan = NoScan
  /\ loop = NoLoop

DoExpandReservoir ==
  /\ pc = "start"
  /\ ctx' = ExpandReservoir(ctx, idx)
  /\ pc' = "done"
  /\ UNCHANGED <<loop, ctx0, params, idx, scan>>

NextReservoir == DoExpandReservoir

SpecReservoir == InitReservoir /\ [][NextReservoir]_vars

ResArg == ctx0.cts[1].arg

ResNumEvents == Len(ResArg.time_exprs)

ResDemand(i) == ResArg.level_changes[i + 1].offset

ResMixed == (\E i \in 0..(ResNumEvents - 1) : ResDemand(i) > 0)
              /\ (\E i \in 0..(ResNumEvents - 1) : ResDemand(i) < 0)

\* In assignment A: event i is active, and its time.
ResActive(A, i) == LitTrue(A, is_active_literal(ResArg, i))

ResTime(A, i) == ExprValue(Tail(A), ResArg.time_exprs[i + 1])

\* The level once every active event at or before the time of event i has
\* taken place.
ResLevelAt(A, i) ==
  SumSeq([k \in 1..ResNumEvents |->
            IF ResActive(A, k - 1) /\ ResTime(A, k - 1) <= ResTime(A, i)
              THEN ResDemand(k - 1) ELSE 0])

ResExpanded == pc = "done" /\ ctx.cts[1] = ClearedCt

\* The scenario: two events with demands +1 and -1, levels within [0, 1].
ResScenario ==
  /\ ResNumEvents = 2
  /\ ResDemand(0) = 1
  /\ ResDemand(1) = -1
  /\ ResArg.min_level = 0
  /\ ResArg.max_level = 1

\* C5: after a reservoir with level changes of both signs is expanded, every
\* assignment that satisfies the emitted level constraints and the definition
\* of the precedence literals keeps, at every active event i, the sum of the
\* level changes of the active events at times <= the time of i (equal times
\* included) within [min_level, max_level]; with demands +1 and -1 and levels
\* [0, 1], two active events have time(+1) <= time(-1).
C5_ReservoirPrefixSums ==
  (ResExpanded /\ ResMixed) =>
    \A A \in Solutions(ctx) :
      /\ \A i \in 0..(ResNumEvents - 1) :
           ResActive(A, i) =>
             /\ ResArg.min_level <= ResLevelAt(A, i)
             /\ ResLevelAt(A, i) <= ResArg.max_level
      /\ (ResScenario /\ ResActive(A, 0) /\ ResActive(A, 1)) =>
           ResTime(A, 0) <= ResTime(A, 1)

\* The scenario has been expanded over two variable times that could take
\* either order, and an assignment with both events active is left.
C5_Witness ==
  /\ ResExpanded
  /\ ResScenario
  /\ ResArg.time_exprs = <<Expr(1, 1, 0), Expr(2, 1, 0)>>
  /\ DomainOf(ctx0, 1) = DomainOf(ctx0, 2)
  /\ ~IsFixed(ctx0, 1)
  /\ \E A \in Solutions(ctx) :
       ResActive(A, 0) /\ ResActive(A, 1) /\ ResTime(A, 0) < ResTime(A, 1)

-----------------------------------------------------------------------------
(* Specification of the table expansion: one table over variables 1..n.    *)

TableMaxVal == 1

TableMaxTuples == 4

\* The columns: distinct variables, or the same variable twice.
TableVars == {<<1>>, <<1, 2>>, <<1, 1>>, <<1, 2, 3>>}

\* The domains of the variables of a table of the given width; the widest
\* domain holds a value no tuple has.
TableDomains(width) ==
  IF width = 3 THEN {{0}, 0..TableMaxVal, 0..(TableMaxVal + 1)}
  ELSE NonEmptySubsets(0..TableMaxVal) \cup {0..(TableMaxVal + 1)}

\* The most tuples a table of the given width has.
TableMaxRows(width) == IF width = 2 THEN TableMaxTuples ELSE TableMaxTuples - 1

RECURSIVE Flatten(_)
Flatten(ts) == IF ts = <<>> THEN <<>> ELSE Head(ts) \o Flatten(Tail(ts))

\* A table over columns vs; the tuples are listed in any order, repetitions
\* allowed.
TableInput(vs, doms, rows, neg) ==
  MkCtx(<<{1}>> \o doms, {},
        <<ArgCt("table", <<>>,
                [vars |-> vs, values |-> Flatten(rows), negated |-> neg])>>)

InitTable ==
  /\ \E vs \in TableVars, k \in 0..TableMaxTuples :
       /\ k <= TableMaxRows(Len(vs))
       /\ \E doms \in [1..Max(Range(vs)) -> TableDomains(Len(vs))],
             rows \in [1..k -> [1..Len(vs) -> 0..TableMaxVal]],
             neg \in BOOLEAN, level \in {0, 1} :
            /\ neg => Len(vs) = 2 /\ level = 0
            /\ ctx = TableInput(vs, doms, rows, neg)
            /\ params = [DefaultParams EXCEPT !.table_compression_level = level]
  /\ ctx0 = ctx
  /\ pc = "start"
  /\ idx = 1
  /\ scan = NoScan
  /\ loop = NoLoop

DoExpandPositiveTable ==
  /\ pc = "start"
  /\ ~ctx.cts[idx].arg.negated
  /\ ctx' = ExpandPositiveTable(ctx, idx, params)
  /\ pc' = "done"
  /\ UNCHANGED <<loop, ctx0, params, idx, scan>>

DoExpandNegativeTable ==
  /\ pc = "start"
  /\ ctx.cts[idx].arg.negated
  /\ ctx' = ExpandNegativeTable(ctx, idx)
  /\ pc' = "done"
  /\ UNCHANGED <<loop, ctx0, params, idx, scan>>

NextTable == DoExpandPositiveTable \/ DoExpandNegativeTable

SpecTable == InitTable /\ [][NextTable]_vars

TableArg == ctx0.cts[1].arg

TableNumVars == Max(Range(TableArg.vars))

\* The values assignment B gives to the columns of the table.
TableRow(B) == [j \in 1..Len(TableArg.vars) |-> ValueIn(B, TableArg.vars[j])]

TableExpanded ==
  pc = "done" /\ ~TableArg.negated /\ ctx.cts[1] = ClearedCt /\ ~ctx.crashed

\* C7: after a positive table is expanded, the assignments of its variables
\* that extend to a solution of the emitted constraints within the reduced
\* domains are exactly the assignments of the entry domains whose values on
\* the columns form an input tuple.
C7_PositiveTableExact ==
  TableExpanded =>
    Projection(Solutions(ctx), TableNumVars)
      = {B \in Product(SubSeq(ctx0.dom, 2, TableNumVars + 1)) :
           TableRow(B) \in Range(TableTuples(TableArg))}

-----------------------------------------------------------------------------
(* Specification of the automaton expansion: one automaton over variables  *)
(* 1..n.  The automata are deterministic and list no transition twice, as  *)
(* model validation requires.                                              *)

AutMaxState == 2

AutMaxLabel == 1

AutMaxTransitions == 4

\* The variable of each time step; a variable may serve several steps.
AutVars == {<<1>>, <<1, 2>>, <<1, 1>>, <<1, 2, 3>>, <<1, 1, 2>>, <<1, 2, 1>>}

AutFinals == {<<1>>, <<2>>, <<1, 2>>}

\* The transitions <<tail, label, head>> of a transition function; -1 is
\* no transition.
AutTransitions(delta) ==
  SortSeqs({<<k[1], k[2], delta[k]>> : k \in {k \in DOMAIN delta : delta[k] # -1}})

Automaton(vs, starting_state, final_states, transitions) ==
  [vars |-> vs, starting_state |-> starting_state, final_states |-> final_states,
   transition_tail  |-> [k \in 1..Len(transitions) |-> transitions[k][1]],
   transition_label |-> [k \in 1..Len(transitions) |-> transitions[k][2]],
   transition_head  |-> [k \in 1..Len(transitions) |-> transitions[k][3]]]

AutInput(proto, doms) == MkCtx(<<{1}>> \o doms, {}, <<ArgCt("automaton", <<>>, proto)>>)

\* A five state automaton over four labels whose label 0 leads every state
\* but the starting one to state 1: after the same label, two states of a
\* step can have the same next state.
AutMerging ==
  <<<<0, 0, 1>>, <<0, 1, 2>>, <<0, 2, 3>>, <<0, 3, 4>>>>
    \o [k \in 1..16 |->
          <<1 + ((k - 1) \div 4), (k - 1) % 4,
            IF (k - 1) % 4 = 0 THEN 1
            ELSE 1 + ((((k - 1) \div 4) + ((k - 1) % 4)) % 4)>>]

\* Automata over three labels: a chain with a way back, with two and with
\* three steps, and a four state automaton whose middle step has nine tuples
\* over three in states and two out states, over distinct and over repeated
\* variables.
AutCatalog ==
  LET chain == <<<<0, 0, 1>>, <<1, 1, 2>>, <<1, 2, 0>>>>
      wide(f) == <<<<0, 0, 1>>, <<0, 1, 2>>, <<0, 2, 3>>>>
                   \o [k \in 1..9 |->
                         <<1 + ((k - 1) \div 3), (k - 1) % 3,
                           1 + ((((k - 1) \div 3) + f * ((k - 1) % 3)) % 2)>>]
  IN  {[proto |-> Automaton(vs, 0, <<2>>, chain),
        doms |-> [k \in 1..Len(vs) |-> 0..2]] : vs \in {<<1, 2, 3>>, <<1, 2>>}}
      \cup
      {[proto |-> Automaton(vs, 0, fin, wide(f)),
        doms |-> [k \in 1..Max(Range(vs)) |-> 0..2]] :
         vs \in {<<1, 2, 3>>, <<1, 2, 3, 4>>, <<1, 2, 1>>, <<1, 2, 2, 3>>},
         fin \in {<<1>>, <<1, 2>>, <<3>>},
         f \in {0, 1}}
      \cup
      {[proto |-> Automaton(<<1, 2, 3, 4>>, 0, <<1, 2, 3, 4>>, AutMerging),
        doms |-> <<0..2, 0..3, d3, {0}>>] : d3 \in {0..3, 0..2}}

InitAutomaton ==
  /\ \/ \E vs \in AutVars, fin \in AutFinals,
           delta \in [(0..AutMaxState) \X (0..AutMaxLabel) -> (-1)..AutMaxState],
           d1 \in {0..AutMaxLabel, 0..(AutMaxLabel + 1)} :
          /\ Cardinality({k \in DOMAIN delta : delta[k] # -1}) <= AutMaxTransitions
          /\ ctx = AutInput(Automaton(vs, 0, fin, AutTransitions(delta)),
                            [k \in 1..Max(Range(vs)) |->
                               IF k = 1 THEN d1 ELSE 0..AutMaxLabel])
     \/ \E in \in AutCatalog : ctx = AutInput(in.proto, in.doms)
  /\ ctx0 = ctx
  /\ params = DefaultParams
  /\ pc = "start"
  /\ idx = 1
  /\ scan = NoScan
  /\ loop = NoLoop

DoExpandAutomaton ==
  /\ pc = "start"
  /\ ctx' = ExpandAutomaton(ctx, idx)
  /\ pc' = "done"
  /\ UNCHANGED <<loop, ctx0, params, idx, scan>>

NextAutomaton == DoExpandAutomaton

SpecAutomaton == InitAutomaton /\ [][NextAutomaton]_vars

AutArg == ctx0.cts[1].arg

AutNumVars == Max(Range(AutArg.vars))

\* The labels assignment B gives to the time steps.
AutWord(B) == [k \in 1..Len(AutArg.vars) |-> ValueIn(B, AutArg.vars[k])]

\* The states a run over w can be in after each prefix of w.
RECURSIVE AutRun(_, _, _)
AutRun(proto, from, w) ==
  IF w = <<>> THEN from
  ELSE AutRun(proto,
              {proto.transition_head[t] :
                 t \in {t \in 1..Len(proto.transition_tail) :
                          /\ proto.transition_tail[t] \in from
                          /\ proto.transition_label[t] = Head(w)}},
              Tail(w))

Accepted(proto, w) ==
  AutRun(proto, {proto.starting_state}, w) \cap Range(proto.final_states) # {}

AutExpanded == pc = "done" /\ ~ctx.crashed

\* C3: after an automaton is expanded, the assignments of its variables that
\* extend to a solution of the emitted constraints within the reduced
\* domains are exactly the assignments of the entry domains whose sequence
\* of labels the automaton accepts.
C3_AutomatonLanguage ==
  AutExpanded =>
    Projection(Solutions(ctx), AutNumVars)
      = {B \in Product(SubSeq(ctx0.dom, 2, AutNumVars + 1)) :
           Accepted(AutArg, AutWord(B))}

\* The chain automaton with a way back: states {0,1,2}, starting state 0,
\* final state 2, transitions (0,a,1), (1,b,2), (1,c,0) with a = 0, b = 1,
\* c = 2, over n variables of domain {a,b,c}.
AutChainScenario(n) ==
  /\ AutArg = Automaton([k \in 1..n |-> k], 0, <<2>>,
                        <<<<0, 0, 1>>, <<1, 1, 2>>, <<1, 2, 0>>>>)
  /\ \A k \in 1..n : DomainOf(ctx0, k) = 0..2
  /\ pc = "done"

\* C8 as stated: over vars = [x,y,z] the expansion fixes x to a and z to b
\* and leaves exactly one solution, in which y is b.
C8_AsStated ==
  AutChainScenario(3) =>
    /\ DomainOf(ctx, 1) = {0}
    /\ DomainOf(ctx, 3) = {1}
    /\ Projection(Solutions(ctx), 3) = {<<0, 1, 1>>}

\* C8: the automaton accepts no sequence of three labels, so over
\* vars = [x,y,z] the expansion marks the model infeasible, fixes no
\* variable and leaves the constraint in place; over vars = [x,y] it fixes
\* x to a and y to b, the only solution.
C8_ChainScenario ==
  /\ AutChainScenario(3) =>
       /\ ctx.unsat
       /\ Solutions(ctx) = {}
       /\ \A k \in 1..3 : ~IsFixed(ctx, k)
       /\ ctx.cts[1] = ctx0.cts[1]
       /\ {w \in [1..3 -> 0..2] : Accepted(AutArg, w)} = {}
  /\ AutChainScenario(2) =>
       /\ ~ctx.unsat
       /\ DomainOf(ctx, 1) = {0}
       /\ DomainOf(ctx, 2) = {1}
       /\ Projection(Solutions(ctx), 2) = {<<0, 1>>}
       /\ ctx.cts[1] = ClearedCt

\* The three step scenario has been expanded.
C8_Witness == AutChainScenario(3) /\ ctx # ctx0

\* The expansion as it stands before the step of `time`: the context and
\* the Booleans of the states the step starts from.
RECURSIVE AutBefore(_)
AutBefore(time) ==
  IF time = 0 THEN [c |-> ctx0, in_encoding |-> EmptyMap, returned |-> FALSE]
  ELSE LET prev == AutBefore(time - 1)
       IN  IF prev.returned \/ prev.c.crashed THEN prev
           ELSE ExpandAutomatonStep(prev, AutArg,
                                    PropagateAutomaton(AutArg, ctx0).states, time - 1)

\* The usable rows of the step of `time`, as indices of the transitions.
AutRows(before, time) ==
  LET reachable_states == PropagateAutomaton(AutArg, ctx0).states
  IN  {t \in 1..Len(AutArg.transition_label) :
         /\ AutArg.transition_tail[t] \in reachable_states[time + 1]
         /\ AutArg.transition_head[t] \in reachable_states[time + 2]
         /\ DomainContains(before.c, AutArg.vars[time + 1], AutArg.transition_label[t])}

\* The literal of a state under an encoding of the states; an empty encoding
\* stands for the only state there is.
AutStateLiteral(encoding, state) ==
  IF encoding = EmptyMap THEN GetTrueLiteral
  ELSE IF state \in DOMAIN encoding THEN encoding[state]
  ELSE GetFalseLiteral

\* In assignment A, row t of the step of `time` has its in state and its
\* label true.
AutRowFires(A, trace, time, t) ==
  /\ LitTrue(A, AutStateLiteral(trace[time + 1].in_encoding, AutArg.transition_tail[t]))
  /\ LitTrue(A, LiteralFor(ctx, AutArg.vars[time + 1], AutArg.transition_label[t]))

\* In assignment A, row t of the step of `time` has its out state true.
AutRowOut(A, trace, time, t) ==
  LitTrue(A, AutStateLiteral(trace[time + 2].in_encoding,
                             IF time + 1 = Len(AutArg.vars) THEN 0
                             ELSE AutArg.transition_head[t]))

\* The expansion of an automaton over distinct variables ran to its end.
AutCompleted ==
  /\ AutExpanded /\ ~ctx.unsat /\ ctx.cts[1] = ClearedCt /\ ctx # ctx0
  /\ Cardinality(Range(AutArg.vars)) = Len(AutArg.vars)

\* In every solution and at every step, a row whose in state and label are
\* true has its out state true.
AutRowsImply(S, trace) ==
  \A A \in S, time \in 0..(Len(AutArg.vars) - 1) :
    \A t \in AutRows(trace[time + 1], time) :
      AutRowFires(A, trace, time, t) => AutRowOut(A, trace, time, t)

\* In every solution and at every step, exactly one row has its in state,
\* its label and its out state true.
AutOneRow(S, trace) ==
  \A A \in S, time \in 0..(Len(AutArg.vars) - 1) :
    Cardinality({t \in AutRows(trace[time + 1], time) :
                   AutRowFires(A, trace, time, t) /\ AutRowOut(A, trace, time, t)}) = 1

\* Two solutions that agree on the variables of the entry agree everywhere.
AutDetermined(S) == Cardinality(S) = Cardinality(Projection(S, NumVars(ctx0) - 1))

\* C14: after an automaton over distinct variables is expanded, in every
\* assignment that satisfies
\* the emitted constraints and at every time step, each usable row
\* satisfies (in and label) => out and exactly one row of the step has its
\* in state, its label and its out state true, so that the Booleans the
\* expansion introduced are functionally determined by the values of the
\* variables of the entry, whichever encoding a step used.
C14_StateBooleansDetermined ==
  AutCompleted =>
    LET check(S, trace) ==
          /\ AutRowsImply(S, trace)
          /\ AutOneRow(S, trace)
          /\ AutDetermined(S)
    IN  check(Solutions(ctx), [k \in 1..(Len(AutArg.vars) + 1) |-> AutBefore(k - 1)])

-----------------------------------------------------------------------------
(* Specification of the stage: ExpandCpModel, one constraint slot per      *)
(* step, and FinalExpansionForLinearConstraint, over a catalog of models.  *)
(* ctx0 is the context at the entry of the last call; pc is "idle" before  *)
(* the first call, "pass1" and "pass2" within ExpandCpModel, "returned"    *)
(* when its entry guards returned at once, "aborted" after its early exit, *)
(* "done" after its end and "final" after                                  *)
(* FinalExpansionForLinearConstraint.                                      *)

\* The entry guards of ExpandCpModel with the one on ModelIsExpanded left out.
ExpandCpModelGuardsWithoutExpanded(c, p) ==
  p.disable_constraint_expansion \/ c.unsat

\* The entry guards of ExpandCpModel: the call returns at once.
ExpandCpModelGuards(c, p) ==
  p.disable_constraint_expansion \/ c.unsat \/ c.expanded

\* The switch of the first pass at slot i.  Returns [c, skip]; skip when
\* nothing was done for the constraint.
FirstPassCase(c, i, p) ==
  LET ct == c.cts[i]
      handled(x) == [c |-> x, skip |-> FALSE]
  IN  CASE ct.kind = "linear" ->
             handled(IF NumIntervals(ct.rhs) > 1 /\ ~p.cp_model_presolve
                       THEN ExpandComplexLinearConstraint(c, i, p) ELSE c)
        [] ct.kind = "reservoir" ->
             IF ~p.expand_reservoir_constraints THEN handled(c)
             ELSE IF \E k \in 1..Len(ct.arg.level_changes) :
                       ~ExprIsFixed(c, ct.arg.level_changes[k])
               THEN [c |-> c, skip |-> TRUE]
             ELSE handled(ExpandReservoir(c, i))
        [] ct.kind = "int_mod"   -> handled(ExpandIntMod(c, i))
        [] ct.kind = "int_prod"  -> handled(ExpandIntProd(c, i))
        [] ct.kind = "element"   -> handled(ExpandElement(c, i))
        [] ct.kind = "inverse"   -> handled(ExpandInverse(c, i))
        [] ct.kind = "automaton" -> handled(ExpandAutomaton(c, i))
        [] ct.kind = "table" ->
             handled(IF ct.arg.negated THEN ExpandNegativeTable(c, i)
                     ELSE ExpandPositiveTable(c, i, p))
        [] OTHER -> [c |-> c, skip |-> TRUE]

\* The switch of FinalExpansionForLinearConstraint at slot i.
FinalExpansionCase(c, i, p) ==
  IF c.cts[i].kind = "linear" /\ NumIntervals(c.cts[i].rhs) > 1
    THEN ExpandComplexLinearConstraint(c, i, p) ELSE c

\* The loop of FinalExpansionForLinearConstraint from slot i on; the
\* constraint count is read again at every iteration.
RECURSIVE FinalExpansionLoop(_, _, _)
FinalExpansionLoop(c, i, p) ==
  IF i > Len(c.cts) THEN c
  ELSE FinalExpansionLoop(FinalExpansionCase(c, i, p), i + 1, p)

FinalExpansionForLinearConstraint(c, p) ==
  IF p.disable_constraint_expansion \/ c.unsat THEN c
  ELSE FinalExpansionLoop(c, 1, p)

\* The caller calls ExpandCpModel once, and once more after a call that got
\* past the entry guards.
CallExpandCpModel ==
  /\ \/ pc = "idle"
     \/ pc \in {"done", "aborted"} /\ ~ExpandCpModelGuards(ctx0, params)
  /\ ctx0' = ctx
  /\ IF ExpandCpModelGuards(ctx, params)
       THEN /\ pc' = "returned"
            /\ UNCHANGED <<ctx, idx, scan>>
       ELSE /\ pc' = "pass1"
            /\ ctx' = ClearPrecedenceCache(ctx)
            /\ idx' = 1
            /\ scan' = NoScan
  /\ UNCHANGED <<loop, params>>

Pass1Handle ==
  /\ pc = "pass1"
  /\ idx <= Len(ctx.cts)
  /\ \E r \in {FirstPassCase(ctx, idx, params)} :
       /\ ~r.skip
       /\ ctx' = r.c
  /\ idx' = idx + 1
  /\ pc' = IF ctx'.crashed THEN "crashed" ELSE IF EarlyExit(ctx') THEN "aborted" ELSE "pass1"
  /\ UNCHANGED <<loop, ctx0, params, scan>>

Pass1Skip ==
  /\ pc = "pass1"
  /\ idx <= Len(ctx.cts)
  /\ FirstPassCase(ctx, idx, params).skip
  /\ idx' = idx + 1
  /\ UNCHANGED <<loop, ctx, ctx0, params, pc, scan>>

\* The caches of the second pass start empty.
Pass1End ==
  /\ pc = "pass1"
  /\ idx > Len(ctx.cts)
  /\ pc' = "pass2"
  /\ idx' = 1
  /\ scan' = NoScan
  /\ UNCHANGED <<loop, ctx, ctx0, params>>

CallFinalExpansionForLinearConstraint ==
  /\ pc \in {"idle", "done", "aborted"}
  /\ ctx0' = ctx
  /\ ctx' = FinalExpansionForLinearConstraint(ctx, params)
  /\ pc' = "final"
  /\ UNCHANGED <<loop, params, idx, scan>>

\* x # y over variables x and y: x - y leaves out the value 0.
StageNotEqual(x, y) == LinearCt(<<>>, <<x, y>>, <<1, -1>>, Universe \ {0})

StageTable(vs, values) ==
  ArgCt("table", <<>>, [vars |-> vs, values |-> values, negated |-> FALSE])

StageReservoir(times, demands, min_level, max_level) ==
  ArgCt("reservoir", <<>>,
        [time_exprs |-> times, level_changes |-> demands, active_literals |-> <<>>,
         min_level |-> min_level, max_level |-> max_level])

\* The models [dom, cts] the stage is entered with: a table, a disequality
\* and an all different over the same variables; a reservoir with an empty
\* level interval before a table; a table without valid tuple between an
\* element and an automaton; an all different of two equal constants before
\* a disequality; a modulo, a product with a Boolean and a linear constraint
\* with a right-hand side of two intervals; a mixed reservoir and an inverse;
\* a reservoir with a variable level change and a negated table; a
\* disequality under an enforcement literal with a three interval
\* right-hand side; a mixed reservoir before a table without valid tuple.
StageModels ==
  {[dom |-> <<{1}, 0..2, 0..2, 0..2>>,
    cts |-> <<StageTable(<<1, 2>>, <<0, 1, 1, 2, 2, 0>>),
              StageNotEqual(1, 3),
              ArgCt("all_diff", <<>>, [exprs |-> <<Expr(1, 1, 0), Expr(3, 1, 0)>>])>>],
   [dom |-> <<{1}, 0..1, 0..1>>,
    cts |-> <<StageReservoir(<<Expr(1, 1, 0), Expr(2, 1, 0)>>,
                             <<ConstExpr(1), ConstExpr(-1)>>, 1, 0),
              StageTable(<<1, 2>>, <<0, 0, 1, 1>>)>>],
   [dom |-> <<{1}, 0..1, 0..1, {7}, {8}>>,
    cts |-> <<ArgCt("element", <<>>, [index |-> 1, target |-> 2, vars |-> <<3, 4>>]),
              StageTable(<<1, 2>>, <<5, 5>>),
              ArgCt("automaton", <<>>,
                    Automaton(<<1, 2>>, 0, <<1>>, <<<<0, 0, 1>>, <<1, 1, 1>>>>))>>],
   [dom |-> <<{1}, {1}, {1}, 0..2>>,
    cts |-> <<ArgCt("all_diff", <<>>,
                    [exprs |-> <<Expr(1, 1, 0), Expr(2, 1, 0), Expr(3, 1, 0)>>]),
              StageNotEqual(1, 3)>>],
   [dom |-> <<{1}, 0..3, 1..2, 0..1, 0..3>>,
    cts |-> <<ArgCt("int_mod", <<>>,
                    [exprs |-> <<Expr(1, 1, 0), Expr(2, 1, 0)>>, target |-> Expr(4, 1, 0)]),
              ArgCt("int_prod", <<>>,
                    [exprs |-> <<Expr(3, 1, 0), Expr(1, 1, 0)>>, target |-> Expr(4, 1, 0)]),
              LinearCt(<<>>, <<1, 2>>, <<1, 1>>, {1, 2, 4})>>],
   [dom |-> <<{1}, 0..1, 0..1, 0..1, 0..1>>,
    cts |-> <<StageReservoir(<<Expr(1, 1, 0), Expr(2, 1, 0)>>,
                             <<ConstExpr(1), ConstExpr(-1)>>, 0, 1),
              ArgCt("inverse", <<>>, [f_direct |-> <<1, 2>>, f_inverse |-> <<3, 4>>])>>],
   [dom |-> <<{1}, 0..1, 0..1, 0..1>>,
    cts |-> <<StageReservoir(<<Expr(1, 1, 0), Expr(2, 1, 0)>>,
                             <<Expr(3, 1, 0), ConstExpr(-1)>>, 0, 1),
              ArgCt("table", <<>>,
                    [vars |-> <<1, 2>>, values |-> <<0, 0>>, negated |-> TRUE])>>],
   [dom |-> <<{1}, 0..2, 0..2, 0..1>>,
    cts |-> <<LinearCt(<<3>>, <<1, 2>>, <<1, 1>>, {0, 2, 4}),
              StageNotEqual(1, 2)>>],
   [dom |-> <<{1}, 0..1, 0..1>>,
    cts |-> <<StageReservoir(<<Expr(1, 1, 0), Expr(2, 1, 0)>>,
                             <<ConstExpr(1), ConstExpr(-1)>>, 0, 1),
              StageTable(<<1, 2>>, <<5, 5>>)>>]}

\* A precedence literal left in the cache by an earlier use of the context.
StageStalePrecedence ==
  {<<GetReifiedPrecedenceKey(MkCtx(<<{1}, 0..1, 0..1>>, {}, <<>>),
                             Expr(1, 1, 0), Expr(2, 1, 0), GetTrueLiteral, GetTrueLiteral),
     2>>}

\* The parameters: the defaults, and each switch the stage reads flipped.
StageParams ==
  {DefaultParams,
   [DefaultParams EXCEPT !.disable_constraint_expansion = TRUE],
   [DefaultParams EXCEPT !.cp_model_presolve = FALSE],
   [DefaultParams EXCEPT !.cp_model_presolve = FALSE,
                         !.encode_complex_linear_constraint_with_integer = TRUE],
   [DefaultParams EXCEPT !.cp_model_presolve = FALSE, !.enumerate_all_solutions = TRUE],
   [DefaultParams EXCEPT !.expand_reservoir_constraints = FALSE],
   [DefaultParams EXCEPT !.expand_alldiff_constraints = TRUE]}

\* The context may be infeasible before the stage is entered, and its
\* precedence cache may hold a literal.
InitStage ==
  /\ \E m \in StageModels, infeasible \in BOOLEAN, stale \in BOOLEAN :
       ctx = [MkCtx(m.dom, {}, m.cts) EXCEPT
                !.unsat = infeasible,
                !.prec = IF stale THEN StageStalePrecedence ELSE {}]
  /\ params \in StageParams
  /\ ctx0 = ctx
  /\ pc = "idle"
  /\ idx = 1
  /\ scan = NoScan
  /\ loop = NoLoop

NextStage ==
  \/ CallExpandCpModel
  \/ Pass1Handle
  \/ Pass1Skip
  \/ Pass1End
  \/ Pass2AllDiff
  \/ Pass2Linear
  \/ Pass2Skip
  \/ Pass2End
  \/ CallFinalExpansionForLinearConstraint

SpecStage == InitStage /\ [][NextStage]_vars

\* C1: when a call of ExpandCpModel entered on an expanded model has
\* finished, the context (working model, domains, encodings, caches) is the
\* one the call was entered with.
C1_SecondCallChangesNothing ==
  (pc \in {"returned", "done", "aborted"} /\ ctx0.expanded) => ctx = ctx0

\* A second call has returned on a model the first call expanded, adding
\* constraints and encoding literals to it.
C1_Witness ==
  /\ pc = "returned"
  /\ ctx0.expanded
  /\ ctx0.enc # {}
  /\ \E k \in 1..Len(ctx0.cts) : ctx0.cts[k] = ClearedCt

C2_State ==
  /\ (pc \in {"returned", "final"} /\ ctx0.unsat) => ctx = ctx0
  /\ pc \in {"pass1", "pass2", "done"} => ~ctx.unsat
  /\ pc = "aborted" => ctx.unsat /\ ~ctx.expanded

C2_Step ==
  pc = "aborted" => ctx' = ctx /\ pc' \notin {"pass1", "pass2", "done"}

\* C2: a call of ExpandCpModel or FinalExpansionForLinearConstraint entered
\* on an infeasible context leaves the context as it is; within
\* ExpandCpModel the model is feasible whenever a constraint is about to be
\* handled in either pass and at the end, so the constraint that makes it
\* infeasible is the last one handled; after that early exit the model is
\* not marked expanded, and no later step changes the context or enters a
\* pass.
C2_InfeasibilityStops == [](C2_State) /\ [][C2_Step]_vars

\* The first pass has stopped at a constraint that made the model infeasible
\* and a later constraint it would expand is as it was at entry.
C2_Witness ==
  /\ pc = "aborted"
  /\ idx <= Len(ctx.cts)
  /\ ctx.cts[idx].kind = "table"
  /\ ctx.cts[idx] = ctx0.cts[idx]

\* C12: on a run of ExpandCpModel that got past its entry guards the
\* precedence cache is empty when the first pass starts, and it is empty
\* when the call has returned, at its end or at an early exit.
C12_PrecedenceCacheCleared ==
  /\ (pc = "pass1" /\ idx = 1) => ctx.prec = {}
  /\ pc \in {"done", "aborted"} => ctx.prec = {}


\* A step handles an emptied slot.
AtEmptiedSlot ==
  pc \in {"pass1", "pass2"} /\ idx <= Len(ctx.cts) /\ ctx.cts[idx] = ClearedCt

\* The number of constraints does not decrease and an emptied slot is not
\* expanded again.
SlotsStay ==
  /\ Len(ctx'.cts) >= Len(ctx.cts)
  /\ AtEmptiedSlot => ctx' = ctx

\* The linear constraint ct with the slack of the integer encoding.
WithSlack(ct, slack) ==
  [ct EXCEPT !.vars = Append(@, slack), !.coeffs = Append(@, -1), !.rhs = {0}]

\* C13 as stated: in every step the number of constraints does not decrease
\* and every slot the model had before the step holds the same constraint
\* after it or is emptied; a step at an emptied slot changes nothing.
C13_Step ==
  /\ SlotsStay
  /\ \A k \in 1..Len(ctx.cts) :
       ctx'.cts[k] = ctx.cts[k] \/ ctx'.cts[k] = ClearedCt

C13_EmptiedInPlace == [][C13_Step]_vars

C13_RewritingStep ==
  /\ SlotsStay
  /\ \A k \in 1..Len(ctx.cts) :
       \/ ctx'.cts[k] = ctx.cts[k]
       \/ ctx'.cts[k] = ClearedCt
       \/ /\ params.encode_complex_linear_constraint_with_integer
          /\ ctx.cts[k].kind = "linear"
          /\ NumIntervals(ctx.cts[k].rhs) > 1
          /\ \E slack \in NumVars(ctx)..(NumVars(ctx') - 1) :
               /\ ctx'.cts[k] = WithSlack(ctx.cts[k], slack)
               /\ DomainOf(ctx', slack) = ctx.cts[k].rhs

\* C13, amended: across ExpandCpModel and FinalExpansionForLinearConstraint
\* the number of constraints never decreases, every slot keeps its index,
\* a slot changes only by being emptied or, for a linear constraint with a
\* right-hand side of several intervals under the integer encoding, by
\* getting the slack term and the right-hand side {0} in place, new
\* constraints are only appended, and an emptied slot is not expanded again.
C13_SlotsKeepTheirIndex == [][C13_RewritingStep]_vars

\* A call has ended with a slot emptied, a slot left as it was, a slot
\* rewritten with a slack, and constraints appended.
C13_Witness ==
  /\ pc \in {"done", "final"}
  /\ Len(ctx.cts) > Len(ctx0.cts)
  /\ \E k \in 1..Len(ctx0.cts) : ctx0.cts[k] # ClearedCt /\ ctx.cts[k] = ClearedCt
  /\ \E k \in 1..Len(ctx0.cts) : ctx0.cts[k] # ClearedCt /\ ctx.cts[k] = ctx0.cts[k]
  /\ \E k \in 1..Len(ctx.cts) :
       ctx.cts[k].kind = "linear" /\ ctx.cts[k].rhs = {0} /\ Len(ctx.cts[k].vars) = 3



-----------------------------------------------------------------------------
(* Subsolver loops: DeterministicLoop and NonDeterministicLoop.  pc is the *)
(* position of the main thread; loop holds                                 *)
(*   subsolvers, num_generated_tasks, task_id, to_run, t                   *)
(*                     the locals of the loop                              *)
(*   i                 the subsolver SynchronizeAll is at                  *)
(*   scheduled         the tasks of to_run handed to the pool              *)
(*   queue             the tasks the pool has not started                  *)
(*   running           the tasks whose function is being executed          *)
(*   exiting           the tasks whose function returned and whose worker  *)
(*                     has not yet decremented the counter                 *)
(*   results           per subsolver, the finished tasks no Synchronize()  *)
(*                     has incorporated yet                                *)
(*   blocking_counter, num_in_flight, all_done, best                       *)
(*   quiet             no task was in the pool at any step of the last     *)
(*                     SynchronizeAll                                      *)
(* A subsolver is a record [null, type, budget, pending]: budget tasks are *)
(* left to generate and pending tasks are generated and not incorporated.  *)
(* A "helper" never has a task and is never done, a "parallel" subsolver   *)
(* has a task available while its budget lasts, a "serial" one only once   *)
(* its previous task is incorporated.                                      *)

LoopMaxTasks == 2

LoopMaxThreads == 3

LoopMaxBatch == 3

SubSolver(type, budget) == [null |-> FALSE, type |-> type, budget |-> budget, pending |-> 0]

TaskIsAvailable(s) == s.budget > 0 /\ (s.type = "serial" => s.pending = 0)

IsDone(s) == s.type # "helper" /\ s.budget = 0 /\ s.pending = 0

\* Synchronize() of subsolver i incorporates the results of its finished
\* tasks.
Synchronize(l, i) ==
  [l EXCEPT !.subsolvers[i].pending = @ - l.results[i], !.results[i] = 0]

\* GenerateTask(task_id++) of subsolvers[best].
GenerateTask(l, best) ==
  [l EXCEPT !.subsolvers[best].budget = @ - 1,
            !.subsolvers[best].pending = @ + 1,
            !.task_id = @ + 1]

\* Frees the subsolvers that are done; best is the least often called of the
\* others that have a task available, the first of them on a tie, -1 if none.
NextSubsolverToSchedule(subsolvers, num_generated_tasks) ==
  LET n == Len(subsolvers)
      freed == [k \in 1..n |->
                  IF ~subsolvers[k].null /\ IsDone(subsolvers[k])
                    THEN [subsolvers[k] EXCEPT !.null = TRUE]
                  ELSE subsolvers[k]]
      candidates == {k \in 1..n : ~freed[k].null /\ TaskIsAvailable(freed[k])}
      least == {k \in candidates :
                  \A j \in candidates : num_generated_tasks[k] <= num_generated_tasks[j]}
  IN  [subsolvers |-> freed,
       best |-> IF candidates = {} THEN -1 ELSE Min(least)]

\* No task is queued in the pool, executed or about to report its end.
NoTaskInPool(l) == l.queue = <<>> /\ l.running = {} /\ l.exiting = {}

BlockingCounterWaitOneLeft(l) == l.blocking_counter <= 1

\* blocking_counter.Wait() returns.
BlockingCounterWait(l) == l.blocking_counter = 0

\* The condition of the mutex lock: num_in_flight < num_threads.
NumInFlightLtNumThreads(l) == l.num_in_flight < l.num_threads

AllDoneWithOneLeft(l) == l.num_in_flight <= 1

\* if (num_in_flight == 0) all_done = true.
AllDone(l) == l.num_in_flight = 0

LoopSubsolvers ==
  {<<SubSolver("helper", 0), SubSolver("parallel", b1), SubSolver("serial", b2)>> :
     b1 \in 0..LoopMaxTasks, b2 \in 0..LoopMaxTasks}
  \cup {<<SubSolver("parallel", b1), SubSolver("parallel", 1)>> : b1 \in 1..LoopMaxTasks}
  \cup {<<SubSolver("serial", LoopMaxTasks)>>, <<>>}

LoopStart(kind, subsolvers, num_threads, batch_size) ==
  [kind |-> kind, num_threads |-> num_threads, batch_size |-> batch_size,
   subsolvers |-> subsolvers,
   num_generated_tasks |-> [k \in 1..Len(subsolvers) |-> 0],
   task_id |-> 0, to_run |-> <<>>, t |-> 0, i |-> 1, scheduled |-> 0,
   queue |-> <<>>, running |-> {}, exiting |-> {},
   results |-> [k \in 1..Len(subsolvers) |-> 0],
   blocking_counter |-> 0, num_in_flight |-> 0, all_done |-> FALSE, best |-> -1,
   quiet |-> TRUE]

InitNoStage ==
  /\ ctx = MkCtx(<<{1}>>, {}, <<>>)
  /\ ctx0 = ctx
  /\ params = DefaultParams
  /\ idx = 1
  /\ scan = NoScan

\* DeterministicLoop with batch_size > 1, at its first SynchronizeAll.
InitDeterministicLoop ==
  /\ InitNoStage
  /\ pc = "sync"
  /\ \E subsolvers \in LoopSubsolvers, num_threads \in 1..LoopMaxThreads,
        batch_size \in 2..LoopMaxBatch :
       loop = LoopStart("deterministic", subsolvers, num_threads, batch_size)

\* NonDeterministicLoop with num_threads > 1, at the top of its loop.
InitNonDeterministicLoop ==
  /\ InitNoStage
  /\ pc = "lock"
  /\ \E subsolvers \in LoopSubsolvers, num_threads \in 2..LoopMaxThreads :
       loop = LoopStart("nondeterministic", subsolvers, num_threads, 1)

\* One Synchronize() of SynchronizeAll.
SynchronizeOne ==
  /\ pc = "sync"
  /\ loop.i <= Len(loop.subsolvers)
  /\ loop' = [(IF loop.subsolvers[loop.i].null THEN loop ELSE Synchronize(loop, loop.i))
                EXCEPT !.i = @ + 1, !.quiet = @ /\ NoTaskInPool(loop)]
  /\ UNCHANGED <<ctx, ctx0, params, pc, idx, scan>>

\* SynchronizeAll returns.
SynchronizeAllEnd ==
  /\ pc = "sync"
  /\ loop.i > Len(loop.subsolvers)
  /\ pc' = IF loop.kind = "deterministic" THEN "generate" ELSE "next"
  /\ loop' = [loop EXCEPT !.t = 0]
  /\ UNCHANGED <<ctx, ctx0, params, idx, scan>>

\* One round of the generation loop that adds a task to the batch.
DetGenerateTask ==
  /\ pc = "generate"
  /\ loop.t < loop.batch_size
  /\ \E r \in {NextSubsolverToSchedule(loop.subsolvers, loop.num_generated_tasks)} :
       /\ r.best # -1
       /\ loop' = [GenerateTask([loop EXCEPT !.subsolvers = r.subsolvers], r.best)
                     EXCEPT !.num_generated_tasks[r.best] = @ + 1,
                            !.to_run = Append(@, [id |-> loop.task_id, subsolver |-> r.best]),
                            !.t = @ + 1]
  /\ UNCHANGED <<ctx, ctx0, params, pc, idx, scan>>

\* The generation loop ends: batch_size tasks are generated, or no subsolver
\* has a task.
DetGenerateEnd ==
  /\ pc = "generate"
  /\ \E r \in {NextSubsolverToSchedule(loop.subsolvers, loop.num_generated_tasks)} :
       \/ /\ loop.t >= loop.batch_size
          /\ loop' = loop
       \/ /\ loop.t < loop.batch_size
          /\ r.best = -1
          /\ loop' = [loop EXCEPT !.subsolvers = r.subsolvers]
  /\ pc' = "generated"
  /\ UNCHANGED <<ctx, ctx0, params, idx, scan>>

\* if (to_run.empty()) break.
DetBreak ==
  /\ pc = "generated"
  /\ loop.to_run = <<>>
  /\ pc' = "returned"
  /\ UNCHANGED <<ctx, ctx0, params, idx, scan, loop>>

\* The blocking counter of the batch.
DetBlockingCounter ==
  /\ pc = "generated"
  /\ loop.to_run # <<>>
  /\ loop' = [loop EXCEPT !.blocking_counter = Len(loop.to_run), !.scheduled = 0]
  /\ pc' = "schedule"
  /\ UNCHANGED <<ctx, ctx0, params, idx, scan>>

\* pool.Schedule of the next task of the batch.
DetSchedule ==
  /\ pc = "schedule"
  /\ loop.kind = "deterministic"
  /\ loop.scheduled < Len(loop.to_run)
  /\ loop' = [loop EXCEPT !.queue = Append(@, loop.to_run[loop.scheduled + 1]),
                          !.scheduled = @ + 1]
  /\ UNCHANGED <<ctx, ctx0, params, pc, idx, scan>>

\* to_run.clear().
DetScheduleEnd ==
  /\ pc = "schedule"
  /\ loop.kind = "deterministic"
  /\ loop.scheduled = Len(loop.to_run)
  /\ loop' = [loop EXCEPT !.to_run = <<>>, !.scheduled = 0]
  /\ pc' = "wait"
  /\ UNCHANGED <<ctx, ctx0, params, idx, scan>>

\* blocking_counter.Wait(), then the next iteration.
DetWait ==
  /\ pc = "wait"
  /\ BlockingCounterWait(loop)
  /\ loop' = [loop EXCEPT !.i = 1, !.quiet = NoTaskInPool(loop)]
  /\ pc' = "sync"
  /\ UNCHANGED <<ctx, ctx0, params, idx, scan>>

\* A free worker of the pool takes the first task of the queue.
WorkerStart ==
  /\ loop.queue # <<>>
  /\ Cardinality(loop.running) + Cardinality(loop.exiting) < loop.num_threads
  /\ loop' = [loop EXCEPT !.queue = Tail(@), !.running = @ \cup {Head(loop.queue)}]
  /\ UNCHANGED <<ctx, ctx0, params, pc, idx, scan>>

\* The function of a task returns.
TaskReturns ==
  /\ \E task \in loop.running :
       loop' = [loop EXCEPT !.running = @ \ {task}, !.exiting = @ \cup {task},
                            !.results[task.subsolver] = @ + 1]
  /\ UNCHANGED <<ctx, ctx0, params, pc, idx, scan>>

\* blocking_counter.DecrementCount() of the worker.
DetDecrementCount ==
  /\ loop.kind = "deterministic"
  /\ \E task \in loop.exiting :
       loop' = [loop EXCEPT !.exiting = @ \ {task}, !.blocking_counter = @ - 1]
  /\ UNCHANGED <<ctx, ctx0, params, pc, idx, scan>>

NextDeterministicLoop ==
  \/ SynchronizeOne
  \/ SynchronizeAllEnd
  \/ DetGenerateTask
  \/ DetGenerateEnd
  \/ DetBreak
  \/ DetBlockingCounter
  \/ DetSchedule
  \/ DetScheduleEnd
  \/ DetWait
  \/ WorkerStart
  \/ TaskReturns
  \/ DetDecrementCount

SpecDeterministicLoop == InitDeterministicLoop /\ [][NextDeterministicLoop]_vars

\* The mutex is taken once num_in_flight < num_threads; all_done is read
\* under it.
NonDetLock ==
  /\ pc = "lock"
  /\ NumInFlightLtNumThreads(loop)
  /\ loop' = [loop EXCEPT !.all_done = AllDone(loop), !.i = 1,
                          !.quiet = NoTaskInPool(loop)]
  /\ pc' = "sync"
  /\ UNCHANGED <<ctx, ctx0, params, idx, scan>>

\* best == -1 and all_done: break.
NonDetBreak ==
  /\ pc = "next"
  /\ \E r \in {NextSubsolverToSchedule(loop.subsolvers, loop.num_generated_tasks)} :
       /\ r.best = -1
       /\ loop.all_done
       /\ loop' = [loop EXCEPT !.subsolvers = r.subsolvers]
  /\ pc' = "returned"
  /\ UNCHANGED <<ctx, ctx0, params, idx, scan>>

\* best == -1 with a task pending: sleep and continue.
NonDetSleep ==
  /\ pc = "next"
  /\ \E r \in {NextSubsolverToSchedule(loop.subsolvers, loop.num_generated_tasks)} :
       /\ r.best = -1
       /\ ~loop.all_done
       /\ loop' = [loop EXCEPT !.subsolvers = r.subsolvers]
  /\ pc' = "lock"
  /\ UNCHANGED <<ctx, ctx0, params, idx, scan>>

\* num_generated_tasks[best]++ and, under the mutex, num_in_flight++.
NonDetInFlight ==
  /\ pc = "next"
  /\ \E r \in {NextSubsolverToSchedule(loop.subsolvers, loop.num_generated_tasks)} :
       /\ r.best # -1
       /\ loop' = [loop EXCEPT !.subsolvers = r.subsolvers, !.best = r.best,
                               !.num_generated_tasks[r.best] = @ + 1,
                               !.num_in_flight = @ + 1]
  /\ pc' = "schedule"
  /\ UNCHANGED <<ctx, ctx0, params, idx, scan>>

\* GenerateTask(task_id++) and pool.Schedule.
NonDetSchedule ==
  /\ pc = "schedule"
  /\ loop.kind = "nondeterministic"
  /\ loop' = [GenerateTask(loop, loop.best)
                EXCEPT !.queue = Append(@, [id |-> loop.task_id, subsolver |-> loop.best])]
  /\ pc' = "lock"
  /\ UNCHANGED <<ctx, ctx0, params, idx, scan>>

\* num_in_flight-- of the worker, under the mutex.
NonDetTaskDone ==
  /\ loop.kind = "nondeterministic"
  /\ \E task \in loop.exiting :
       loop' = [loop EXCEPT !.exiting = @ \ {task}, !.num_in_flight = @ - 1]
  /\ UNCHANGED <<ctx, ctx0, params, pc, idx, scan>>

NextNonDeterministicLoop ==
  \/ NonDetLock
  \/ SynchronizeOne
  \/ SynchronizeAllEnd
  \/ NonDetBreak
  \/ NonDetSleep
  \/ NonDetInFlight
  \/ NonDetSchedule
  \/ WorkerStart
  \/ TaskReturns
  \/ NonDetTaskDone

SpecNonDeterministicLoop == InitNonDeterministicLoop /\ [][NextNonDeterministicLoop]_vars

\* Within one iteration of DeterministicLoop the pool holds tasks only
\* between the first pool.Schedule and the return of blocking_counter.Wait().
DetPhases ==
  /\ pc \in {"sync", "generate", "generated", "returned"} => NoTaskInPool(loop)
  /\ pc \in {"generate", "generated"} =>
       /\ Len(loop.to_run) <= loop.batch_size
       /\ Len(loop.to_run) = loop.t
  /\ pc = "sync" => loop.to_run = <<>>
  /\ loop.quiet

\* The loop ends in the step after the generation of a batch, and then
\* exactly when the batch is empty; no task starts before pool.Schedule has
\* been reached, with the whole batch in to_run.
DetStep ==
  /\ pc = "generated" => (pc' = "returned" <=> loop.to_run = <<>>)
  /\ (pc' = "returned" /\ pc # "returned") => pc = "generated"
  /\ loop'.running # loop.running => pc \in {"schedule", "wait"}
  /\ loop'.task_id # loop.task_id => (pc = "generate" /\ NoTaskInPool(loop))

\* C15: in DeterministicLoop with batch_size > 1, the tasks of a batch, at
\* most batch_size of them, are all generated before any of them starts;
\* every task of the batch has finished before the next Synchronize() or
\* GenerateTask() call, so that no Synchronize() runs while a task does;
\* and the loop ends exactly when an iteration generated no task.
C15_DeterministicPhases == []DetPhases /\ [][DetStep]_vars

\* Two tasks of the second batch are being executed at once.
C15_Witness ==
  /\ loop.kind = "deterministic"
  /\ pc = "wait"
  /\ Cardinality(loop.running) >= 2
  /\ \A task \in loop.running : task.id >= 2

\* The tasks NonDeterministicLoop has scheduled or is about to schedule and
\* that have not reported their end.
TasksInFlight(l) == Len(l.queue) + Cardinality(l.running) + Cardinality(l.exiting)

\* C16: NonDeterministicLoop with num_threads > 1 has returned only if no
\* task is in flight, its last SynchronizeAll ran while no task was in
\* flight and no remaining subsolver has a task available; and at most
\* num_threads tasks are in flight at any time.
C16_NonDeterministicReturn ==
  /\ TasksInFlight(loop) <= loop.num_threads
  /\ loop.num_in_flight <= loop.num_threads
  /\ pc = "returned" =>
       /\ NoTaskInPool(loop)
       /\ loop.num_in_flight = 0
       /\ loop.quiet
       /\ \A k \in 1..Len(loop.subsolvers) :
            ~loop.subsolvers[k].null =>
              /\ ~TaskIsAvailable(loop.subsolvers[k])
              /\ loop.subsolvers[k].pending = 0
              /\ loop.results[k] = 0

\* The loop has returned after it ran every task of three subsolvers, one of
\* which was freed; num_threads tasks have been in flight at once.
C16_Witness ==
  /\ loop.kind = "nondeterministic"
  /\ pc = "returned"
  /\ loop.task_id >= loop.num_threads + 1
  /\ Len(loop.subsolvers) = 3
  /\ \E k \in 1..3 : loop.subsolvers[k].null
  /\ \E k \in 1..3 : ~loop.subsolvers[k].null

\* The variables of the all different of slot idx that are not fixed.
AllDiffFreeVars ==
  {ctx.cts[idx].arg.exprs[k].vars[1] :
     k \in {k \in 1..Len(ctx.cts[idx].arg.exprs) :
              /\ ctx.cts[idx].arg.exprs[k].vars # <<>>
              /\ ~IsFixed(ctx, ctx.cts[idx].arg.exprs[k].vars[1])}}

\* The step handles an all different of at least two expressions.
AllDiffHandled == Pass2At({"all_diff"}) /\ Len(ctx.cts[idx].arg.exprs) >= 2

\* The step has emitted constraints for the all different of slot idx.
AllDiffEmitted == AllDiffHandled /\ ~ctx'.unsat /\ Len(ctx'.cts) > Len(ctx.cts)

C17_Step ==
  (AllDiffEmitted /\ \E var \in AllDiffFreeVars : ScanFresh(ctx, var).bounds_are_used)
    => ctx'.cts[idx] = ctx.cts[idx]

\* C17: when MaybeExpandAllDiff expands an all different one of whose
\* variables is not fixed and has its bounds used by another constraint, the
\* all different stays in its slot next to the emitted constraints.
C17_KeptWhenBoundsUsed == [][C17_Step]_vars

\* The sizes for which an all different over exprs is expanded.
AllDiffSizeAllows(c, i) ==
  LET exprs == c.cts[i].arg.exprs
      size == Cardinality(UNION {DomainSuperSetOf(c, exprs[k]) : k \in 1..Len(exprs)})
  IN  \/ size <= Max({32, 2 * Len(exprs)})
      \/ /\ \A k \in 1..Len(exprs) : IsFullyEncoded(c, exprs[k])
         /\ size <= 256

C18_Step ==
  (AllDiffHandled /\ ~params.expand_alldiff_constraints) =>
    /\ ctx' # ctx <=>
         /\ \E var \in AllDiffFreeVars : ScanFresh(ctx, var).domain_is_used
         /\ AllDiffSizeAllows(ctx, idx)
    /\ \A var \in scan'.processed_variables : ScanCached(scan', var) = ScanFresh(ctx, var)

\* C18: with expand_alldiff_constraints off, an all different of at least
\* two expressions is expanded exactly when the domain of one of its
\* variables is used and the union of the domains has at most
\* max(32, 2 * |exprs|) values, or at most 256 with every expression fully
\* encoded; and what the caches give for a processed variable is what a
\* fresh scan of its constraints gives.
C18_ExpandedFromUsage == [][C18_Step]_vars

-----------------------------------------------------------------------------
(* Specification of the integer product: one int_prod in slot 1 over       *)
(* variables 1..3, target 4 and the Booleans 5 and 6 of its enforcement.   *)

IntProdMaxVal == 2

\* The factors: a variable, the negation 1 - x of a variable, and
\* expressions that are no literal whatever the domain.
IntProdFactors ==
  {Expr(1, 1, 0), Expr(1, -1, 1), Expr(2, 1, 0), Expr(2, -1, 1), Expr(3, 1, 0),
   Expr(3, 2, 1), Expr(2, 1, 1), ConstExpr(1)}

IntProdEnforcements == {<<>>, <<5>>, <<5, NegatedRef(6)>>}

IntProdInput(exprs, target, enf, d1, d2) ==
  MkCtx(<<{1}, d1, d2, 0..IntProdMaxVal,
          (-IntProdMaxVal * IntProdMaxVal)..(IntProdMaxVal * IntProdMaxVal), 0..1, 0..1>>,
        {}, <<ArgCt("int_prod", enf, [exprs |-> exprs, target |-> target])>>)

InitIntProd ==
  /\ \E a \in IntProdFactors, b \in IntProdFactors, more \in BOOLEAN,
        target \in {Expr(4, 1, 0), Expr(4, -1, 1)}, enf \in IntProdEnforcements,
        d1 \in {0..1, 0..IntProdMaxVal, {1}}, d2 \in {0..1, (-1)..1} :
       ctx = IntProdInput(IF more THEN <<a, b, a>> ELSE <<a, b>>, target, enf, d1, d2)
  /\ ctx0 = ctx
  /\ params = DefaultParams
  /\ pc = "start"
  /\ idx = 1
  /\ scan = NoScan
  /\ loop = NoLoop

DoExpandIntProd ==
  /\ pc = "start"
  /\ ctx' = ExpandIntProd(ctx, idx)
  /\ pc' = "done"
  /\ UNCHANGED <<loop, ctx0, params, idx, scan>>

NextIntProd == DoExpandIntProd

SpecIntProd == InitIntProd /\ [][NextIntProd]_vars

IntProdArg == ctx0.cts[1].arg

\* Factor k of a two factor product is a literal at the entry.
IntProdIsLiteral(k) ==
  /\ Len(IntProdArg.exprs) = 2
  /\ ExpressionIsALiteral(ctx0, IntProdArg.exprs[k]).is_literal

\* C19: when both factors of a two factor int_prod are literals,
\* ExpandIntProd leaves the constraint as it is and adds no constraint.
C19_BothLiteralsUntouched ==
  (pc = "done" /\ IntProdIsLiteral(1) /\ IntProdIsLiteral(2)) => ctx = ctx0

\* The linear constraint ct is sum of the terms == 0 for the expressions
\* and signs of terms, enforced by literal and by every literal of enf.
IntProdLinear(ct, literal, enf, terms) ==
  /\ ct.kind = "linear"
  /\ literal \in Range(ct.enf)
  /\ Range(enf) \subseteq Range(ct.enf)
  /\ Range(ct.enf) \subseteq Range(enf) \cup {literal}
  /\ ct.vars = LinearOfExprs(<<>>, terms).vars
  /\ ct.coeffs = LinearOfExprs(<<>>, terms).coeffs
  /\ ct.rhs = LinearOfExprs(<<>>, terms).rhs

\* The expansion with literal, the literal of factor k, and x the other
\* factor.
IntProdExpandedWith(k, x) ==
  LET literal == ExpressionIsALiteral(ctx0, IntProdArg.exprs[k]).literal
  IN  /\ ctx.cts[1] = ClearedCt
      /\ Len(ctx.cts) = Len(ctx0.cts) + 2
      /\ ctx.dom = ctx0.dom
      /\ IntProdLinear(ctx.cts[Len(ctx0.cts) + 1], literal, ctx0.cts[1].enf,
                       <<<<x, 1>>, <<IntProdArg.target, -1>>>>)
      /\ IntProdLinear(ctx.cts[Len(ctx0.cts) + 2], NegatedRef(literal), ctx0.cts[1].enf,
                       <<<<IntProdArg.target, 1>>>>)

\* C20: when exactly one factor of a two factor int_prod is a literal and
\* the other an expression x, ExpandIntProd clears the constraint and emits
\* exactly two linear constraints, x - target == 0 enforced by the literal
\* and target == 0 enforced by its negation, both with every enforcement
\* literal of the int_prod as well; the literal is the one of the factor that
\* is a literal.
C20_OneLiteralExpanded ==
  /\ (pc = "done" /\ IntProdIsLiteral(1) /\ ~IntProdIsLiteral(2))
       => IntProdExpandedWith(1, IntProdArg.exprs[2])
  /\ (pc = "done" /\ ~IntProdIsLiteral(1) /\ IntProdIsLiteral(2))
       => IntProdExpandedWith(2, IntProdArg.exprs[1])

-----------------------------------------------------------------------------
(* Specification of the reservoir over a precedence cache that already     *)
(* holds literals: the last variable of the model is a Boolean b, and the  *)
(* cache maps some ordered pairs of events to b or to its negation.        *)

ResOrderedPairs(n) == {p \in (0..(n - 1)) \X (0..(n - 1)) : p[1] # p[2]}

\* The context c with one more Boolean and the precedences of pairs cached
\* as lit(b).
ResWithCache(c, pairs, negated) ==
  LET reservoir == c.cts[1].arg
      b == NumVars(c)
      key(p) == GetReifiedPrecedenceKey(c, reservoir.time_exprs[p[1] + 1],
                                        reservoir.time_exprs[p[2] + 1],
                                        is_active_literal(reservoir, p[1]),
                                        is_active_literal(reservoir, p[2]))
  IN  [c EXCEPT !.dom = Append(@, {0, 1}),
                !.prec = {<<key(p), IF negated THEN NegatedRef(b) ELSE b>> : p \in pairs}]

InitReservoirCached ==
  /\ \E n \in 2..ResMaxEvents :
       \E tdoms \in [1..n -> {0..ResMaxTime}], demands \in [1..n -> ResDemands],
          act \in ResActives(n), pair \in ResOrderedPairs(n), negated \in BOOLEAN :
         ctx = ResWithCache(ResInput(n, tdoms, [k \in 1..n |-> Expr(k, 1, 0)], demands,
                                     act, <<-1, 1>>),
                            {pair}, negated)
  /\ ctx0 = ctx
  /\ params = DefaultParams
  /\ pc = "start"
  /\ idx = 1
  /\ scan = NoScan
  /\ loop = NoLoop

SpecReservoirCached == InitReservoirCached /\ [][NextReservoir]_vars

\* The events whose active literal is not false at the entry, in order.
ResPossible == SelectIdx(ResArg.time_exprs,
                         LAMBDA k : ~LiteralIsFalse(ctx0, is_active_literal(ResArg, k - 1)))

\* The position of x in the increasing sequence s.
ResRank(s, x) == Cardinality({k \in 1..Len(s) : s[k] <= x})

\* The level constraint of event i: the level constraints are the last
\* constraints of the model, one per possible event.
ResLevelCt(i) == ctx.cts[Len(ctx.cts) - Len(ResPossible) + ResRank(ResPossible, i + 1)]

\* The position of event j among the terms of the level constraint of i.
ResTermOf(i, j) == ResRank(ResPossible, j + 1) - (IF j > i THEN 1 ELSE 0)

\* The literal the cache held at the entry for the precedence of j before i;
\* the true literal stands for none.
ResCachedLiteral(j, i) ==
  LET hit == PrecedenceCached(ctx0,
               GetReifiedPrecedenceKey(ctx0, ResArg.time_exprs[j + 1],
                                       ResArg.time_exprs[i + 1],
                                       is_active_literal(ResArg, j),
                                       is_active_literal(ResArg, i)))
  IN  IF hit = {} THEN GetTrueLiteral ELSE (CHOOSE e \in hit : TRUE)[2]

\* The pairs (j, i) of possible events whose cached literal is negated.
ResNegatedPairs ==
  {p \in ResOrderedPairs(ResNumEvents) :
     /\ p[1] + 1 \in Range(ResPossible)
     /\ p[2] + 1 \in Range(ResPossible)
     /\ ~RefIsPositive(ResCachedLiteral(p[1], p[2]))}

\* The value of a reference of a linear constraint when its variable is x.
ResRefValue(ref, x) == IF RefIsPositive(ref) THEN x ELSE -x

-----------------------------------------------------------------------------
(* Specification of the reservoir over every subset of events whose active *)
(* literal is false.                                                       *)

InitReservoirActives ==
  /\ \E n \in 2..(ResMaxEvents + 1) :
       \E adoms \in [1..n -> {{0}, {0, 1}, {1}}], demands \in [1..n -> {-1, 1}],
          negated \in BOOLEAN :
         ctx = ResInput(n, [k \in 1..n |-> 0..ResMaxTime], [k \in 1..n |-> Expr(k, 1, 0)],
                        demands,
                        [lits |-> [k \in 1..n |->
                                     IF negated /\ k = 1 THEN NegatedRef(n + k) ELSE n + k],
                         doms |-> adoms],
                        <<0, 1>>)
  /\ ctx0 = ctx
  /\ params = DefaultParams
  /\ pc = "start"
  /\ idx = 1
  /\ scan = NoScan
  /\ loop = NoLoop

SpecReservoirActives == InitReservoirActives /\ [][NextReservoir]_vars

\* C22: in the mixed sign case the lookup of a precedence never misses:
\* for every two distinct events whose active literals are not false, the
\* precedences of both orders are in the cache before the level constraints
\* are built, so that the CHECK does not fail and the expansion completes.
C22_PrecedenceLookupHits ==
  (pc = "done" /\ ResMixed) =>
    /\ ~ctx.crashed
    /\ ctx.cts[1] = ClearedCt
    /\ \A p \in ResOrderedPairs(ResNumEvents) :
         (p[1] + 1 \in Range(ResPossible) /\ p[2] + 1 \in Range(ResPossible)) =>
           \E e \in ReservoirPrecedences(ctx0, ResArg).cache : e[1] = p[1] /\ e[2] = p[2]

\* A reservoir of at least three possible events and one event whose active
\* literal is false has been expanded.
C22_Witness ==
  /\ pc = "done"
  /\ ResMixed
  /\ Len(ResPossible) >= 3
  /\ Len(ResPossible) < ResNumEvents
  /\ Len(ctx.cts) > Len(ctx0.cts) + 3

-----------------------------------------------------------------------------
(* The reachable sets of PropagateAutomaton, on the inputs of the          *)
(* automaton specification.                                                *)

AutStates ==
  {AutArg.starting_state} \cup Range(AutArg.transition_tail) \cup Range(AutArg.transition_head)

\* Transition t can be taken at step k (from 1) within the entry domains.
AutUsableAt(t, k) == DomainContains(ctx0, AutArg.vars[k], AutArg.transition_label[t])

\* The state a sequence of transitions taken from the starting state ends in.
AutRunState(tr, k) == IF k = 1 THEN AutArg.starting_state ELSE AutArg.transition_head[tr[k - 1]]

\* The sequences of k transitions that can be taken from the starting state,
\* each label in the domain of the variable of its step.
RECURSIVE AutRunsOfLength(_)
AutRunsOfLength(k) ==
  IF k = 0 THEN {<<>>}
  ELSE LET extended == {Append(tr, t) : tr \in AutRunsOfLength(k - 1),
                                        t \in 1..Len(AutArg.transition_tail)}
       IN  {tr \in extended : /\ AutArg.transition_tail[tr[k]] = AutRunState(tr, k)
                              /\ AutUsableAt(tr[k], k)}

\* The runs that end in a final state.
AutAcceptingRuns ==
  LET n == Len(AutArg.vars)
  IN  {tr \in AutRunsOfLength(n) : AutRunState(tr, n + 1) \in Range(AutArg.final_states)}

\* What one more sweep over the sets of pa keeps: the heads and the labels
\* of the transitions between kept states with a kept label.
AutSweepAgain(pa) ==
  LET n == Len(AutArg.vars)
      kept(k) == {t \in 1..Len(AutArg.transition_tail) :
                    /\ AutArg.transition_tail[t] \in pa.states[k]
                    /\ AutArg.transition_label[t] \in pa.labels[k]
                    /\ AutArg.transition_head[t] \in pa.states[k + 1]}
  IN  [states |-> [k \in 1..(n + 1) |->
                     IF k = 1 THEN pa.states[1] \cap {AutArg.starting_state}
                     ELSE {AutArg.transition_head[t] : t \in kept(k - 1)}],
       labels |-> [k \in 1..n |-> {AutArg.transition_label[t] : t \in kept(k)}]]

AutExact(pa, runs) ==
  /\ \A k \in 1..(Len(AutArg.vars) + 1) : pa.states[k] = {AutRunState(tr, k) : tr \in runs}
  /\ \A k \in 1..Len(AutArg.vars) :
       pa.labels[k] = {AutArg.transition_label[tr[k]] : tr \in runs}
  /\ runs # {} => /\ BackwardPass(AutArg, pa) = pa
                  /\ AutSweepAgain(pa) = pa

\* The automaton has a step and a transition and its variables are distinct.
AutPropagated ==
  /\ pc = "done"
  /\ Len(AutArg.vars) >= 1
  /\ Len(AutArg.transition_label) >= 1
  /\ Cardinality(Range(AutArg.vars)) = Len(AutArg.vars)

\* C23: over distinct variables, after the forward and the backward pass
\* states[t] is exactly the set of the states that a run from the starting
\* state to a final state, with every label in the domain of its variable,
\* is in at position t, labels[t] is exactly the set of the labels such a
\* run takes at step t, and one more sweep removes nothing.
C23_PropagateAutomatonExact ==
  AutPropagated => AutExact(PropagateAutomaton(AutArg, ctx0), AutAcceptingRuns)

\* The backward pass has removed a state the forward pass had reached, and
\* some run is left over three variables.
C23_Witness ==
  /\ AutPropagated
  /\ Len(AutArg.vars) >= 3
  /\ ForwardPass(AutArg, ctx0).states # PropagateAutomaton(AutArg, ctx0).states
  /\ PropagateAutomaton(AutArg, ctx0).states[2] # {}

-----------------------------------------------------------------------------
(* The domains the inverse expansion leaves.                               *)

\* Value j of f_direct[i] and value i of f_inverse[j] are both possible or
\* both impossible.
InvSupported(c, i, j) ==
  (j \in DomainOf(c, InvArg.f_direct[i + 1])) <=> (i \in DomainOf(c, InvArg.f_inverse[j + 1]))

\* A variable is at two places of the two vectors.
InvAliased ==
  Cardinality({PositiveRef(InvArg.f_direct[k]) : k \in 1..InvN}
                \cup {PositiveRef(InvArg.f_inverse[k]) : k \in 1..InvN}) # 2 * InvN

\* C24: when the inverse expansion completes, for all i, j in [0, n) value j
\* is in the domain of f_direct[i] if and only if value i is in the domain of
\* f_inverse[j], also when a variable occurs twice in the two vectors.
C24_InverseSupportFixedPoint ==
  InvCompleted => \A i, j \in 0..(InvN - 1) : InvSupported(ctx, i, j)

-----------------------------------------------------------------------------
(* Specification of the element expansion over variable arrays: the index  *)
(* is variable 1, the target is variable 1 or 2, and the array is over      *)
(* variables 1..ElemAliasVars, so that the index or the target can be one   *)
(* of vars[].                                                              *)

ElemAliasLen == 2

ElemAliasVars == 3

ElemAliasMaxVal == 2

InitElementAliased ==
  /\ \E n \in 1..ElemAliasLen :
       \E arr \in [1..n -> 1..ElemAliasVars], target \in 1..2,
          doms \in [1..ElemAliasVars -> NonEmptySubsets(0..ElemAliasMaxVal)] :
         ctx = MkCtx(<<{1}>> \o doms, {},
                     <<ArgCt("element", <<>>,
                             [index |-> 1, target |-> target, vars |-> arr])>>)
  /\ ctx0 = ctx
  /\ params = DefaultParams
  /\ pc = "start"
  /\ idx = 1
  /\ scan = NoScan
  /\ loop = NoLoop

SpecElementAliased == InitElementAliased /\ [][NextElement]_vars

ElemCompleted == pc = "done" /\ ~ctx.unsat /\ ctx.cts[1] = ClearedCt

\* The index values left are positions of the array whose variable can still
\* be equal to the target, and every target value left is a value of one of
\* these variables.
ElemTight(c) ==
  /\ \A v \in DomainOf(c, ElemIndex) :
       /\ 0 <= v
       /\ v < Len(ElemArg.vars)
       /\ DomainOf(c, ElemArg.vars[v + 1]) \cap DomainOf(c, ElemTarget) # {}
  /\ DomainOf(c, ElemTarget)
       \subseteq UNION {DomainOf(c, ElemArg.vars[v + 1]) :
                          v \in DomainOf(c, ElemIndex) \cap 0..(Len(ElemArg.vars) - 1)}

\* C25: when the element expansion completes, in every sub-case every value v
\* left in the domain of the index is a position of vars[] with the domain of
\* vars[v] meeting the domain of the target, and the domain of the target is
\* within the union of the domains of these vars[v]; also when the index or
\* the target is one of vars[].
C25_ElementDomainsTight == ElemCompleted => ElemTight(ctx)

-----------------------------------------------------------------------------
(* The reduction of a table with columns that are only there to carry a    *)
(* cost.  wc = [vars, tuples, objective_map, removable]: the columns, the  *)
(* tuples, the objective coefficient of each variable (0 when it is not in *)
(* the objective) and the variables that are in no other constraint.  The  *)
(* result holds the new columns and tuples (cost last), the amount added   *)
(* to the objective offset, the costs given to encoding literals as        *)
(* records [column, value, cost], and the constraints of the mapping model *)
(* as records [enforcement, var, value].                                   *)

VariableWithCostIsUniqueAndRemovable(wc, var) ==
  var \in wc.removable /\ wc.objective_map[var] # 0

VariableIsUniqueAndRemovable(wc, var) ==
  var \in wc.removable /\ wc.objective_map[var] = 0

\* The positions of the columns that are taken out of the table.
WcspOnlyHereAndInObjective(wc) ==
  {k \in 1..Len(wc.vars) :
     \/ VariableWithCostIsUniqueAndRemovable(wc, wc.vars[k])
     \/ VariableIsUniqueAndRemovable(wc, wc.vars[k])}

\* The values of tuple t at the positions in cols, in increasing position.
WcspSelect(t, cols) == [k \in 1..Cardinality(cols) |-> t[SortedSeq(cols)[k]]]

\* Rewrite the tuples: the kept values, then the cost, then the deleted
\* values.
WcspRewrite(wc) ==
  LET only_here == WcspOnlyHereAndInObjective(wc)
      cost(t) == SumSeq([k \in 1..Len(t) |->
                           IF k \in only_here THEN t[k] * wc.objective_map[wc.vars[k]]
                           ELSE 0])
  IN  [i \in 1..Len(wc.tuples) |->
         WcspSelect(wc.tuples[i], (1..Len(wc.vars)) \ only_here)
           \o <<cost(wc.tuples[i])>>
           \o WcspSelect(wc.tuples[i], only_here)]

\* Remove tuples that only differ by their cost: of the sorted tuples, those
\* whose first num_new values differ from the last tuple kept.
WcspRemoveDuplicates(sorted, num_new) ==
  LET body(acc, t) ==
        IF acc # <<>> /\ SubSeq(t, 1, num_new) = SubSeq(acc[Len(acc)], 1, num_new)
          THEN acc
          ELSE Append(acc, t)
  IN  FoldSeq(body, <<>>, sorted)

\* The transfer of min_cost to the objective offset.
WcspTransferMinCost(r, min_cost) ==
  IF min_cost > 0
    THEN [r EXCEPT !.offset = @ + min_cost,
                   !.tuples = [i \in 1..Len(r.tuples) |->
                                 [r.tuples[i] EXCEPT ![Len(r.tuples[i])] = @ - min_cost]]]
    ELSE r

\* WcspTransferToEncoding with the minimum of a value given to the literal
\* and not taken off the tuples.
WcspTransferToEncodingOnly(r, var_index) ==
  LET last == Len(r.vars) + 1
      values == {r.tuples[i][var_index] : i \in 1..Len(r.tuples)}
      value_to_min_cost ==
        [v \in values |->
           Min({r.tuples[i][last] : i \in {k \in 1..Len(r.tuples) : r.tuples[k][var_index] = v}})]
  IN  [r EXCEPT !.literal_cost =
                   @ \cup {[column |-> var_index, value |-> v, cost |-> value_to_min_cost[v]] :
                             v \in values}]

\* For one column: the minimum cost of the tuples of each value is taken off
\* these tuples and given to the literal of the value.
WcspTransferToEncoding(r, var_index) ==
  LET last == Len(r.vars) + 1
      values == {r.tuples[i][var_index] : i \in 1..Len(r.tuples)}
      value_to_min_cost ==
        [v \in values |->
           Min({r.tuples[i][last] : i \in {k \in 1..Len(r.tuples) : r.tuples[k][var_index] = v}})]
  IN  [r EXCEPT !.tuples = [i \in 1..Len(r.tuples) |->
                              [r.tuples[i] EXCEPT ![last] = @ - value_to_min_cost[r.tuples[i][var_index]]]],
                !.literal_cost =
                   @ \cup {[column |-> var_index, value |-> v, cost |-> value_to_min_cost[v]] :
                             v \in {w \in values : value_to_min_cost[w] # 0}}]

ReduceTableInPresenceOfUniqueVariableWithCosts(wc) ==
  LET only_here    == WcspOnlyHereAndInObjective(wc)
      new_vars     == WcspSelect(wc.vars, (1..Len(wc.vars)) \ only_here)
      deleted_vars == WcspSelect(wc.vars, only_here)
      num_new      == Len(new_vars)
      rewritten    == WcspRewrite(wc)
      min_cost     == Min({rewritten[i][num_new + 1] : i \in 1..Len(rewritten)})
      kept         == WcspRemoveDuplicates(SortTuples(rewritten), num_new)
      mapping      ==
        {[enforcement |-> [k \in 1..num_new |-> <<new_vars[k], kept[i][k]>>],
          var |-> deleted_vars[j], value |-> kept[i][num_new + 1 + j]] :
           i \in 1..Len(kept), j \in 1..Len(deleted_vars)}
      r0 == [returned |-> TRUE, vars |-> new_vars,
             tuples |-> [i \in 1..Len(kept) |-> SubSeq(kept[i], 1, num_new + 1)],
             offset |-> 0, literal_cost |-> {}, mapping |-> mapping, min_cost |-> min_cost,
             normalized |-> <<>>]
      r1 == WcspTransferMinCost(r0, min_cost)
      r2 == FoldSeq(WcspTransferToEncoding, [r1 EXCEPT !.normalized = r1.tuples],
                    [k \in 1..num_new |-> k])
  IN  IF only_here = {}
        THEN [returned |-> FALSE, vars |-> wc.vars, tuples |-> wc.tuples, offset |-> 0,
              literal_cost |-> {}, mapping |-> {}, min_cost |-> 0, normalized |-> <<>>]
        ELSE r2

\* The cost column in CompressAndExpandPositiveTable, without compression: the
\* cost of a single tuple goes to the objective offset, otherwise the cost of
\* each tuple goes to its tuple literal.
WcspPlaceTupleCosts(r) ==
  LET last == Len(r.vars) + 1
  IN  IF Len(r.tuples) = 1
        THEN [returned |-> r.returned, vars |-> r.vars, tuples |-> r.tuples,
              offset |-> r.offset + r.tuples[1][last], literal_cost |-> r.literal_cost,
              mapping |-> r.mapping, min_cost |-> r.min_cost, normalized |-> r.normalized,
              tuple_cost |-> <<0>>]
        ELSE [returned |-> r.returned, vars |-> r.vars, tuples |-> r.tuples,
              offset |-> r.offset, literal_cost |-> r.literal_cost,
              mapping |-> r.mapping, min_cost |-> r.min_cost, normalized |-> r.normalized,
              tuple_cost |-> [i \in 1..Len(r.tuples) |-> r.tuples[i][last]]]

-----------------------------------------------------------------------------
(* Specification of the table reduction: a table of up to WcspMaxCols      *)
(* columns over values 0..WcspMaxVal, any set of up to WcspMaxTuples       *)
(* tuples, any set of removable columns, with objective coefficients of    *)
(* both signs.                                                             *)

WcspMaxCols == 3

WcspMaxVal == 1

WcspMaxTuples == 3

WcspCoeffs == {-1, 0, 1}

InitWcsp ==
  /\ \E n \in 2..WcspMaxCols :
       \E tuples \in {Range(f) : f \in [1..WcspMaxTuples -> [1..n -> 0..WcspMaxVal]]} :
         \E removable \in SUBSET (1..n) :
           \E cost \in [removable -> WcspCoeffs] :
             ctx = [vars |-> [k \in 1..n |-> k], tuples |-> SortSeqs(tuples),
                    objective_map |-> [v \in 1..n |-> IF v \in removable THEN cost[v] ELSE 0],
                    removable |-> removable]
  /\ ctx0 = ctx
  /\ params = DefaultParams
  /\ pc = "start"
  /\ idx = 1
  /\ scan = NoScan
  /\ loop = NoLoop

DoReduceTable ==
  /\ pc = "start"
  /\ ctx' = ReduceTableInPresenceOfUniqueVariableWithCosts(ctx)
  /\ pc' = IF ctx'.returned THEN "reduced" ELSE "done"
  /\ UNCHANGED <<loop, ctx0, params, idx, scan>>

DoPlaceTupleCosts ==
  /\ pc = "reduced"
  /\ ctx' = WcspPlaceTupleCosts(ctx)
  /\ pc' = "done"
  /\ UNCHANGED <<loop, ctx0, params, idx, scan>>

NextWcsp == DoReduceTable \/ DoPlaceTupleCosts

SpecWcsp == InitWcsp /\ [][NextWcsp]_vars

\* The cost of the removed columns of an original tuple.
WcspCostOf(t) ==
  SumSeq([k \in 1..Len(t) |->
            IF k \in WcspOnlyHereAndInObjective(ctx0)
              THEN t[k] * ctx0.objective_map[ctx0.vars[k]] ELSE 0])

\* The values of an original tuple in the columns that remain.
WcspRemaining(t) == WcspSelect(t, (1..Len(ctx0.vars)) \ WcspOnlyHereAndInObjective(ctx0))

WcspOriginal == Range(ctx0.tuples)

WcspCosts(tuples) == {tuples[i][Len(tuples[i])] : i \in 1..Len(tuples)}

\* C26: when the table reduction returns true, the minimum tuple cost has
\* been taken off the cost of every tuple and added to the objective offset,
\* whatever its sign, and the smallest cost after this step is 0.
C26_MinCostNormalized ==
  (pc = "reduced") =>
    /\ ctx.min_cost = Min({WcspCostOf(t) : t \in WcspOriginal})
    /\ ctx.offset = ctx.min_cost
    /\ Min(WcspCosts(ctx.normalized)) = 0

\* What the objective gets for the remaining-column values of kept tuple i:
\* the offset, the costs of the literals column == value, the tuple cost.
WcspObjectiveOf(r, i) ==
  r.offset
    + SumSeq([k \in 1..Len(r.vars) |->
                SumSeq([e \in 1..Cardinality({x \in r.literal_cost :
                                                x.column = k /\ x.value = r.tuples[i][k]}) |->
                          (CHOOSE x \in r.literal_cost :
                             x.column = k /\ x.value = r.tuples[i][k]).cost])])
    + r.tuple_cost[i]

\* The values the mapping model gives to the removed columns under kept
\* tuple i are those of an original tuple of minimum cost.
WcspKeptIsMinimal(r, i) ==
  LET prefix == SubSeq(r.tuples[i], 1, Len(r.vars))
      same   == {t \in WcspOriginal : WcspRemaining(t) = prefix}
      enf    == [k \in 1..Len(r.vars) |-> <<r.vars[k], prefix[k]>>]
  IN  \E t \in same :
        /\ WcspCostOf(t) = Min({WcspCostOf(u) : u \in same})
        /\ \A k \in WcspOnlyHereAndInObjective(ctx0) :
             [enforcement |-> enf, var |-> ctx0.vars[k], value |-> t[k]] \in r.mapping

\* C27: the table reduction preserves the objective.  For every kept tuple,
\* the offset added plus the costs given to the literals of its values plus
\* the cost left on the tuple is the minimum, over the original tuples with
\* these values in the remaining columns, of the cost of the removed columns;
\* the tuple kept is one of minimum cost; and the cost left on a tuple is not
\* negative when a column remains.
C27_ObjectivePreserved ==
  (pc = "done" /\ ctx.returned) =>
    /\ {SubSeq(ctx.tuples[i], 1, Len(ctx.vars)) : i \in 1..Len(ctx.tuples)}
         = {WcspRemaining(t) : t \in WcspOriginal}
    /\ \A i \in 1..Len(ctx.tuples) :
         /\ WcspObjectiveOf(ctx, i)
              = Min({WcspCostOf(t) : t \in {u \in WcspOriginal :
                       WcspRemaining(u) = SubSeq(ctx.tuples[i], 1, Len(ctx.vars))}})
         /\ WcspKeptIsMinimal(ctx, i)
         /\ Len(ctx.vars) >= 1 => ctx.tuples[i][Len(ctx.vars) + 1] >= 0

\* Two tuples that differ only in a removed column have been merged, two
\* tuples are left, and a negative cost has gone to a literal.
C27_Witness ==
  /\ pc = "done"
  /\ ctx.returned
  /\ Len(ctx.tuples) >= 2
  /\ Len(ctx.tuples) < Len(ctx0.tuples)
  /\ \E x \in ctx.literal_cost : x.cost < 0

-----------------------------------------------------------------------------
(* Specification of the expansion of a linear constraint with a complex    *)
(* rhs: variables 1 and 2 over 0..ClMaxVal, Booleans 3 and 4 that can      *)
(* enforce the constraint, any rhs within 0..ClMaxRhs.                     *)

ClMaxVal == 2

ClMaxRhs == 4

ClEnforcements == {<<>>, <<3>>, <<NegatedRef(3)>>, <<3, 4>>}

ClCoeffs == {<<1, 1>>, <<1, -1>>, <<2, 1>>}

InitComplexLinear ==
  /\ \E enf \in ClEnforcements, coeffs \in ClCoeffs, rhs \in SUBSET (0..ClMaxRhs) :
       ctx = MkCtx(<<{1}, 0..ClMaxVal, 0..ClMaxVal, {0, 1}, {0, 1}>>, {},
                   <<LinearCt(enf, <<1, 2>>, coeffs, rhs)>>)
  /\ ctx0 = ctx
  /\ \E enumerate \in BOOLEAN :
       params = [DefaultParams EXCEPT !.enumerate_all_solutions = enumerate]
  /\ pc = "start"
  /\ idx = 1
  /\ scan = NoScan
  /\ loop = NoLoop

DoExpandComplexLinearConstraint ==
  /\ pc = "start"
  /\ ctx' = ExpandComplexLinearConstraint(ctx, idx, params)
  /\ pc' = "done"
  /\ UNCHANGED <<loop, ctx0, params, idx, scan>>

NextComplexLinear == DoExpandComplexLinearConstraint

SpecComplexLinear == InitComplexLinear /\ [][NextComplexLinear]_vars

\* The constraint has at least two variables and an rhs of several
\* intervals, and its Boolean encoding has been emitted.
ClEncoded ==
  /\ pc = "done"
  /\ Len(ctx0.cts[1].vars) >= 2
  /\ Len(IntervalsOf(ctx0.cts[1].rhs)) > 1
  /\ ~params.encode_complex_linear_constraint_with_integer

\* The literals that select a sub-interval: the enforcement literals of the
\* emitted linear constraints.
ClSubCaseLiterals ==
  {ctx.cts[k].enf[1] : k \in {j \in 2..Len(ctx.cts) :
                                 ctx.cts[j].kind = "linear" /\ ctx.cts[j].enf # <<>>}}

\* With two sub-intervals and no enforcement, one Boolean and its negation.
ClSingleBoolean ==
  (ctx0.cts[1].enf = <<>> /\ Len(IntervalsOf(ctx0.cts[1].rhs)) = 2) =>
    /\ NumVars(ctx) = NumVars(ctx0) + 1
    /\ ClSubCaseLiterals = {NumVars(ctx0), NegatedRef(NumVars(ctx0))}

\* When all solutions are enumerated, the sub-case literals are false in the
\* solutions where an enforcement literal is false.
ClTight ==
  (params.enumerate_all_solutions /\ ctx0.cts[1].enf # <<>>) =>
    \A A \in Solutions(ctx) :
      ~Enforced(A, ctx0.cts[1]) => \A lit \in ClSubCaseLiterals : ~LitTrue(A, lit)

\* C28: the Boolean encoding of a linear constraint with at least two
\* variables and an rhs of several intervals is equivalent to the
\* constraint: an assignment of the original variables and enforcement
\* literals satisfies the original enforced constraint if and only if some
\* assignment of the new literals satisfies the emitted constraints; with two
\* sub-intervals and no enforcement one Boolean and its negation are used;
\* and when all solutions are enumerated with enforcement literals, every
\* sub-case literal is false whenever an enforcement literal is false.
C28_ComplexLinearEquivalent ==
  ClEncoded =>
    /\ ctx.cts[1] = ClearedCt
    /\ Projection(Solutions(ctx), NumVars(ctx0) - 1)
         = Projection(Solutions(ctx0), NumVars(ctx0) - 1)
    /\ Cardinality(ClSubCaseLiterals) = Len(IntervalsOf(ctx0.cts[1].rhs))
    /\ ClSingleBoolean
    /\ ClTight

\* An encoding of three sub-intervals under two enforcement literals, with
\* all solutions enumerated, that has solutions with the constraint enforced
\* and solutions with it not enforced.
C28_Witness ==
  /\ ClEncoded
  /\ params.enumerate_all_solutions
  /\ Len(ctx0.cts[1].enf) = 2
  /\ Len(IntervalsOf(ctx0.cts[1].rhs)) = 3
  /\ \E A, B \in Solutions(ctx) : Enforced(A, ctx0.cts[1]) /\ ~Enforced(B, ctx0.cts[1])

-----------------------------------------------------------------------------
(* The size-two expansion as a whole: the inputs of the size-two           *)
(* specification, and inputs with a first domain of more than              *)
(* kDomainComplexityLimit values, whose multiples are relaxed to an        *)
(* interval, so that the forbidden value can be one that a.x + b.y never   *)
(* takes.                                                                  *)

Lin2LargeMaxY == 2

Lin2LargeCoeffs == {<<2, 2>>, <<2, 4>>, <<2, -2>>, <<3, 3>>}

InitLin2Large ==
  /\ \E d2 \in Intervals(0, Lin2LargeMaxY), ab \in Lin2LargeCoeffs, v \in 0..MaxAbs,
        enforced \in BOOLEAN :
       ctx = Lin2Input(0..(kDomainComplexityLimit + 1), d2, ab,
                       ((-10 * kDomainComplexityLimit)..(10 * kDomainComplexityLimit)) \ {v},
                       enforced, <<FALSE, FALSE>>)
  /\ ctx0 = ctx
  /\ params = DefaultParams
  /\ pc = "start"
  /\ idx = 1
  /\ scan = NoScan
  /\ loop = NoLoop

SpecLin2Frame == (InitLin2 \/ InitLin2Large) /\ [][NextLin2]_vars

\* The Booleans that are the literal of some var == value.
Lin2EncodingLiterals(c) == {e[3] : e \in c.enc}

Lin2ClauseLiterals == UNION {Range(NewCts[k].lits) : k \in 1..Len(NewCts)}

\* The expansion gets to the equation a.x + b.y = cte, and it has no integer
\* solution.
Lin2NoIntegerSolution ==
  LET superset ==
        AdditionWith(RelaxIfTooComplex(MultiplicationBy(DomainOf(ctx0, Lin2Ct.vars[1]),
                                                        Lin2Ct.coeffs[1])),
                     RelaxIfTooComplex(MultiplicationBy(DomainOf(ctx0, Lin2Ct.vars[2]),
                                                        Lin2Ct.coeffs[2])))
  IN  /\ ~IsFixed(ctx0, Lin2Ct.vars[1])
      /\ ~IsFixed(ctx0, Lin2Ct.vars[2])
      /\ Cardinality(superset \ Lin2Ct.rhs) = 1
      /\ \A cte \in superset \ Lin2Ct.rhs :
           ~\E x, y \in (-Abs(cte))..Abs(cte) :
              Lin2Ct.coeffs[1] * x + Lin2Ct.coeffs[2] * y = cte

\* On return nothing at all has changed, or the constraint is cleared; no
\* variable and no encoding literal has been added; and without an integer
\* solution the constraint is cleared and no clause is emitted.
Lin2AllOrNothing ==
  /\ ctx = ctx0 \/ ctx.cts[1] = ClearedCt
  /\ ctx.dom = ctx0.dom
  /\ ctx.enc = ctx0.enc
  /\ Lin2NoIntegerSolution => (ctx.cts[1] = ClearedCt /\ NewCts = <<>>)

\* The statement that every literal of an emitted clause is, up to negation,
\* an encoding literal that existed before the call.
C29_ClauseLiteralsEncoded ==
  (pc = "done") =>
    /\ Lin2AllOrNothing
    /\ \A lit \in Lin2ClauseLiterals :
         \/ lit \in Lin2EncodingLiterals(ctx0)
         \/ NegatedRef(lit) \in Lin2EncodingLiterals(ctx0)

\* C29: the size-two expansion is all-or-nothing and never grows the
\* encoding.  On return either nothing has changed (no constraint, variable or
\* encoding literal added) or the constraint is cleared; every literal of an
\* emitted clause is the negation of an encoding literal that existed before
\* the call or the negation of an enforcement literal of the constraint; and
\* when a.x + b.y = cte has no integer solution the constraint is cleared
\* without any clause.
C29_AllOrNothing ==
  (pc = "done") =>
    /\ Lin2AllOrNothing
    /\ \A lit \in Lin2ClauseLiterals :
         \/ NegatedRef(lit) \in Lin2EncodingLiterals(ctx0)
         \/ NegatedRef(lit) \in Range(Lin2Ct.enf)

\* An enforced constraint has been rewritten into clauses.
C29_Witness ==
  /\ Lin2Rewritten
  /\ Lin2Ct.enf # <<>>
  /\ Len(NewCts) >= 2

-----------------------------------------------------------------------------
(* The loops of the stage, one iteration at a time.  The loop of           *)
(* FinalExpansionForLinearConstraint is taken in steps like the two passes *)
(* of ExpandCpModel; a loop that is entered goes on, iteration after       *)
(* iteration, as a sequential program does.                                *)

FinalStart ==
  /\ pc \in {"idle", "done", "aborted"}
  /\ ctx0' = ctx
  /\ idx' = 1
  /\ pc' = IF params.disable_constraint_expansion \/ ctx.unsat THEN "final" ELSE "final_loop"
  /\ UNCHANGED <<loop, ctx, params, scan>>

FinalStep ==
  /\ pc = "final_loop"
  /\ idx <= Len(ctx.cts)
  /\ ctx' = FinalExpansionCase(ctx, idx, params)
  /\ idx' = idx + 1
  /\ UNCHANGED <<loop, ctx0, params, pc, scan>>

FinalEnd ==
  /\ pc = "final_loop"
  /\ idx > Len(ctx.cts)
  /\ pc' = "final"
  /\ UNCHANGED <<loop, ctx, ctx0, params, idx, scan>>

\* A modulo whose quotient is a Boolean, so that the product appended by its
\* expansion is expanded in turn when the first pass gets to it.
StageLoopModels ==
  {[dom |-> <<{1}, 0..1, 1..2, 0..1>>,
    cts |-> <<ArgCt("int_mod", <<>>,
                    [exprs |-> <<Expr(1, 1, 0), Expr(2, 1, 0)>>, target |-> Expr(3, 1, 0)]),
              LinearCt(<<>>, <<1, 3>>, <<1, 2>>, {0, 3})>>]}

InitStageLoops ==
  \/ InitStage
  \/ /\ \E m \in StageLoopModels : ctx = MkCtx(m.dom, {}, m.cts)
     /\ params \in StageParams
     /\ ctx0 = ctx
     /\ pc = "idle"
     /\ idx = 1
     /\ scan = NoScan
     /\ loop = NoLoop

NextStageLoops ==
  \/ CallExpandCpModel
  \/ Pass1Handle
  \/ Pass1Skip
  \/ Pass1End
  \/ Pass2AllDiff
  \/ Pass2Linear
  \/ Pass2Skip
  \/ Pass2End
  \/ FinalStart
  \/ FinalStep
  \/ FinalEnd

StageInLoop == pc \in {"pass1", "pass2", "final_loop"}

\* An iteration of a loop: the loop index moves on.
StageIterate == StageInLoop /\ idx <= Len(ctx.cts) /\ idx' = idx + 1

\* A loop whose index is past the last constraint is left.
StageLeave == StageInLoop /\ idx > Len(ctx.cts) /\ pc' \in {"pass2", "done", "final"}

SpecStageLoops ==
  InitStageLoops /\ [][NextStageLoops]_vars /\ WF_idx(StageIterate) /\ WF_pc(StageLeave)

\* The iteration of loop where at slot j of c appends constraints.
StageAppends(c, j, where, sc) ==
  CASE where = "pass1" ->
         LET r == FirstPassCase(c, j, params)
         IN  ~r.skip /\ Len(r.c.cts) > Len(c.cts)
    [] where = "pass2" ->
         CASE c.cts[j].kind = "all_diff" ->
                Len(MaybeExpandAllDiff(c, j, params, sc).c.cts) > Len(c.cts)
           [] c.cts[j].kind = "linear" ->
                Len(ExpandSomeLinearOfSizeTwo(c, j).cts) > Len(c.cts)
           [] OTHER -> FALSE
    [] OTHER -> Len(FinalExpansionCase(c, j, params).cts) > Len(c.cts)

\* An iteration over a constraint that was appended since the call appends
\* only constraints whose iteration appends nothing.
StageAppendedStep ==
  (StageInLoop /\ pc' = pc /\ idx > Len(ctx0.cts)) =>
    \A j \in (Len(ctx.cts) + 1)..Len(ctx'.cts) : ~StageAppends(ctx', j, pc, scan')

\* C30: the loops of ExpandCpModel and FinalExpansionForLinearConstraint
\* terminate although they read the constraint count again at every
\* iteration and so visit the constraints appended meanwhile: a loop that is
\* entered is left, and the iteration over an appended constraint appends
\* only constraints that are not expanded further.
C30_LoopsTerminate ==
  /\ StageInLoop ~> ~StageInLoop
  /\ [][StageAppendedStep]_vars

\* The first pass has expanded a constraint that was appended during the
\* pass: the product appended by the expansion of a modulo.
C30_Witness ==
  /\ pc = "pass1"
  /\ idx - 1 > Len(ctx0.cts)
  /\ ctx0.cts[1].kind = "int_mod"
  /\ ctx.cts[idx - 1] = ClearedCt
  /\ Len(ctx.cts) > idx
=============================================================================
